---- MODULE Spec2Model ----
(***************************************************************************)
(* The scheduling availability search of the provider app: the FindPane    *)
(* component (src/pages/schedule/FindPane.tsx) as SchedulePage renders it. *)
(* State is the React state of the pane, the props SchedulePage hands it,  *)
(* the $find requests the search effect has issued (each with its          *)
(* AbortController signal and its `completed` flag), and the notifications *)
(* shown.  One action per event handler / promise settlement; an action    *)
(* includes the commit React performs after it (effect cleanup and re-run  *)
(* when a dependency changed).                                             *)
(*                                                                         *)
(* Further specifications over the same variables:                         *)
(*   SpecTid    the transient identifier registry (test-utils/render.tsx   *)
(*              SchedulingTransientIdentifier) applied to a pool of        *)
(*              resources;                                                 *)
(*   SpecBook   BookAppointmentForm (components/schedule) inside FindPane: *)
(*              choosing a patient, submitting, the $book requests and     *)
(*              the result handed up to SchedulePage.handleBookSuccess;    *)
(*   SpecFlight the pane while a $book request is in flight;               *)
(*   SpecMerge  the slot fetch of SchedulePage, which stores the merged    *)
(*              intervals of the slots returned;                           *)
(*   SpecLookup the find-or-create effect of SchedulePage;                 *)
(*   SpecView   the range fetches of SchedulePage under changes of range   *)
(*              and schedule;                                              *)
(*   SpecResults the lists of SchedulePage under range fetches and merged  *)
(*              booking results;                                           *)
(*   SpecClaim  syncClaim of the billing tab.                              *)
(***************************************************************************)
EXTENDS Integers, Sequences, FiniteSets, TLC

VARIABLES
    now,            \* wall clock, in clock steps of TickMs
    schedule,       \* SchedulePage: the practitioner's Schedule resource
    range,          \* SchedulePage: useState<Range | undefined>
    mounted,        \* is a FindPane instance rendered
    serviceType,    \* FindPane: null | undefined (wildcard) | CodeableConcept
    slots,          \* FindPane: undefined | list of Slot
    chosenSlot,     \* FindPane: undefined | Slot
    requests,       \* every $find request issued so far, in issue order
    findUrl,        \* the URL of the latest medplum.get call
    effect,         \* index in requests of the live search effect's request, 0 if none
    nextUuid,       \* uuidv4(): the next fresh token
    notifications,  \* number of showErrorNotification calls
    pool,           \* resource instances handed to SchedulingTransientIdentifier
    assigned,       \* positions in pool that set was called on
    lastGet,        \* the latest SchedulingTransientIdentifier.get call and its result
    patient,        \* BookAppointmentForm: useState<Patient | undefined>
    loading,        \* BookAppointmentForm: useState<boolean>
    books,          \* every $book request posted so far, in issue order
    appointments,   \* SchedulePage: useState<Appointment[] | undefined>
    pageSlots,      \* SchedulePage: useState<Slot[] | undefined>
    submits,        \* how often the form was submitted, with and without a patient
    rawSlots,       \* the intervals of the slots a range fetch returned
    merged,         \* what mergeOverlappingSlots made of them
    lookups,        \* SchedulePage: every run of the find-or-create effect, in run order
    serverSchedules, \* the Schedules the server holds for the practitioner
    slotFetches,    \* SchedulePage: every Slot range fetch issued, in issue order
    appointmentFetches, \* SchedulePage: every Appointment range fetch issued, in issue order
    claim,          \* BillingTab: props.claim, which claimRef.current follows on render
    chargeItems,    \* BillingTab: props.chargeItems, as the number of charge items
    creations,      \* BillingTab: every createClaimFromEncounter call, in call order
    saves,          \* BillingTab: every encounter save of handleEncounterChange, in call order
    claimUpdates    \* BillingTab: 1 while an update of the claim waits in the debounce, else 0

\* the transient identifier registry used on its own
tidVars == <<pool, assigned, lastGet>>

\* the booking form, its requests, and the lists of the schedule view
bookVars == <<patient, loading, books, appointments, pageSlots, submits>>

\* the interval merge used on its own
mergeVars == <<rawSlots, merged>>

\* the schedule view: its find-or-create effect and its range fetches
viewVars == <<lookups, serverSchedules, slotFetches, appointmentFetches>>

\* the billing tab
claimVars == <<claim, chargeItems, creations, saves, claimUpdates>>

vars == <<now, schedule, range, mounted, serviceType, slots, chosenSlot,
          requests, findUrl, effect, nextUuid, notifications, tidVars, bookVars, mergeVars,
          viewVars, claimVars>>

-----------------------------------------------------------------------------
(* Bounds of the model *)

\* $find requests issued in one behaviour
MaxRequests == 2
\* clock steps taken in one behaviour
MaxTicks == 1
\* tokens uuidv4() hands out when the registry is used on its own
MaxAssigns == 3
\* resource instances in the pool
PoolSize == 2
\* submissions of the booking form in one behaviour
MaxSubmits == 2
\* intervals in one input of the merge
MaxIntervals == 3
\* the last instant of the modelled time line
MaxInstant == 4

\* the find-or-create effect runs at most this often
MaxLookups == 3

\* at most this many range fetches of each kind are issued
MaxFetches == 2

\* createClaimFromEncounter is called at most this often
MaxCreations == 2

\* the encounter is saved at most this often
MaxSaves == 1

\* at most this many charge items
MaxItems == 2

-----------------------------------------------------------------------------
(* Constants of the program *)

ONE_WEEK_MS == 7 * 24 * 60 * 60 * 1000

minimumNoticeMinutes == 30

\* granularity of the modelled clock: ten minutes, in milliseconds
TickMs == 10 * 60 * 1000

Minute == 60 * 1000

SchedulingParametersURI == "https://medplum.com/fhir/StructureDefinition/SchedulingParameters"

MedplumSchedulingTransientIdentifierURI == "https://medplum.com/fhir/scheduling-transient-id"

-----------------------------------------------------------------------------
(* Values *)

\* The three selector states.  `null` and `undefined` are JavaScript's; a
\* CodeableConcept carries its codings (an absent `coding` behaves as the
\* empty list under `coding?.forEach`).
Null == [tag |-> "null", coding |-> <<>>, text |-> ""]

Undefined == [tag |-> "undefined", coding |-> <<>>, text |-> ""]

CodeableConcept(coding, text) == [tag |-> "CodeableConcept", coding |-> coding, text |-> text]

\* a Coding field that is not set
Absent == "<absent>"

Coding(system, code) == [system |-> system, code |-> code]

Checkup == CodeableConcept(<<Coding("http://example.com/service-types", "checkup")>>, "Annual Checkup")

Followup ==
    CodeableConcept(<<Coding("http://example.com/service-types", "followup"),
                      Coding(Absent, "fu")>>, "Follow-up Visit")

TextOnly == CodeableConcept(<<>>, "Consultation")

SchedulingParameters(st) == [url |-> SchedulingParametersURI, serviceType |-> st]

OtherExtension == [url |-> "http://example.com/other-extension", serviceType |-> Undefined]

Schedule(id, extension) == [resourceType |-> "Schedule", id |-> id, extension |-> extension]

\* The schedules a practitioner may have: no scheduling parameters, exactly
\* one specific service type, exactly one wildcard, several.
Schedules ==
    { Schedule("schedule-0", <<OtherExtension>>),
      Schedule("schedule-1", <<SchedulingParameters(Checkup)>>),
      Schedule("schedule-2", <<OtherExtension, SchedulingParameters(Undefined)>>),
      Schedule("schedule-3", <<SchedulingParameters(Checkup), SchedulingParameters(Undefined),
                               SchedulingParameters(Followup), SchedulingParameters(TextOnly)>>) }

NoRange == [defined |-> FALSE, start |-> 0, end |-> 0]

Range(start, end) == [defined |-> TRUE, start |-> start, end |-> end]

\* Ranges the calendar reports, in milliseconds: starting in the past and
\* ending on the earliest schedulable instant of the first clock step,
\* starting between two values of that instant, and starting in the future
\* with an end that is not after the start.
Ranges ==
    { Range(0, 40 * Minute),
      Range(35 * Minute, 120 * Minute),
      Range(60 * Minute, 60 * Minute) }

\* `undefined`, as SchedulingTransientIdentifier.get returns it for a
\* resource without a transient identifier; tokens are positive
NoTid == 0

\* a transient identifier that a resource carries when the server returns
\* it: a token of an earlier session, which uuidv4() does not produce again
ServerTid == 0 - 1

\* the value of an identifier of another system
RecordNumber == 0 - 2

Identifier(use, system, value) == [use |-> use, system |-> system, value |-> value]

\* setIdentifier's new entry: { use: 'temp', system, value }
TransientIdentifier(value) == Identifier("temp", MedplumSchedulingTransientIdentifierURI, value)

\* an identifier the resource has on the server
BusinessIdentifier == Identifier("official", "http://example.com/record-number", RecordNumber)

\* A resource: its type, its id, its status and its identifier list (an
\* absent list and an empty one behave alike under setIdentifier and
\* getIdentifier)
Resource(resourceType, id, status, identifier) ==
    [resourceType |-> resourceType, id |-> id, status |-> status, identifier |-> identifier]

\* a free slot as $find returns it, with the transient identifier tid or none
Slot(id, tid) ==
    Resource("Slot", id, "free", IF tid = NoTid THEN <<>> ELSE <<TransientIdentifier(tid)>>)

NoSlot == Resource("undefined", "", "", <<>>)

\* no get call yet
NoGet == [k |-> 0, value |-> NoTid]

SlotsUndefined == [defined |-> FALSE, items |-> <<>>]

SlotList(items) == [defined |-> TRUE, items |-> items]

\* EMPTY of @medplum/core: the shared empty array
EMPTY == <<>>

Entry(resource) == [hasResource |-> TRUE, resource |-> resource]

EntryWithoutResource == [hasResource |-> FALSE, resource |-> NoSlot]

Bundle(hasEntry, entry) == [resourceType |-> "Bundle", hasEntry |-> hasEntry, entry |-> entry]

NoBundle == Bundle(FALSE, <<>>)

\* The bundles the server may answer $find with: no entry field, no
\* entries, slots, and slots with an entry that carries no resource
\* between them, one of them already carrying a transient identifier
Bundles ==
    { NoBundle,
      Bundle(TRUE, <<>>),
      Bundle(TRUE, <<Entry(Slot("slot-1", NoTid)), Entry(Slot("slot-2", NoTid))>>),
      Bundle(TRUE, <<Entry(Slot("slot-2", ServerTid)), EntryWithoutResource, Entry(Slot("slot-1", NoTid))>>) }

\* `undefined` in the form's patient state
NoPatient == Resource("undefined", "", "", <<>>)

\* HomerSimpson of @medplum/mock, and a resource that is not a Patient
HomerSimpson == Resource("Patient", "123", "", <<>>)

DrAliceSmith == Resource("Practitioner", "456", "", <<>>)

\* the appointment and the slots a $book response carries
Appointment(id) == Resource("Appointment", id, "booked", <<>>)

BusySlot(id) == Resource("Slot", id, "busy", <<>>)

BufferSlot(id) == Resource("Slot", id, "busy-unavailable", <<>>)

\* The bundles the server may answer $book with: no entry field; the
\* appointment, the consumed slot and a buffer slot; a buffer slot before
\* the appointment with an entry that carries no resource between them
BookBundles ==
    { NoBundle,
      Bundle(TRUE, <<Entry(Appointment("appointment-1")), Entry(BusySlot("slot-1")),
                     Entry(BufferSlot("slot-2"))>>),
      Bundle(TRUE, <<Entry(BufferSlot("slot-3")), EntryWithoutResource,
                     Entry(Appointment("appointment-2"))>>) }

\* a time interval, in instants of the modelled time line
Interval(start, end) == [start |-> start, end |-> end]

\* mergeOverlappingSlots was not called yet
NotMerged == [done |-> FALSE, items |-> <<>>]

\* the form was not submitted yet
NoSubmits == [withPatient |-> 0, withoutPatient |-> 0]

\* onSuccess was not called
NoResults == [called |-> FALSE, appointments |-> <<>>, slots |-> <<>>]

\* `undefined` in props.claim and claimRef.current
NoClaim == [resourceType |-> "undefined", id |-> ""]

-----------------------------------------------------------------------------
(* Pure functions of the program *)

getExtensionValue(ext) == ext.serviceType

serviceTypesFromSchedulingParameters(sched) ==
    LET extensions == SelectSeq(sched.extension, LAMBDA ext : ext.url = SchedulingParametersURI)
    IN  [i \in 1..Len(extensions) |-> getExtensionValue(extensions[i])]

\* (mutant) the selector always starts without a selection
InitialServiceTypeNeverSelects(serviceTypes) == Null

\* useState initialiser of serviceType
InitialServiceType(serviceTypes) ==
    IF Len(serviceTypes) = 1 THEN serviceTypes[1] ELSE Null

\* useSchedulingStartsAt({ minimumNoticeMinutes }): now plus the minimum notice
useSchedulingStartsAt(clock, minutes) == clock * TickMs + minutes * Minute

earliestSchedulable(clock) == useSchedulingStartsAt(clock, minimumNoticeMinutes)

\* (mutant) the range's start is used as it is
searchStartUnclamped(rng, earliest) == rng.start

searchStart(rng, earliest) ==
    IF rng.start < earliest THEN earliest ELSE rng.start

\* (mutant) a range ending on the search start is kept
searchEndNonStrict(rng, start) ==
    IF start <= rng.end THEN rng.end ELSE start + ONE_WEEK_MS

searchEnd(rng, start) ==
    IF start < rng.end THEN rng.end ELSE start + ONE_WEEK_MS

\* Date.prototype.toISOString: the instant as an ISO-8601 string
toISOString(t) == [iso8601 |-> t]

\* `${x}` of a template literal
Template(x) == IF x = Absent THEN "undefined" ELSE x

\* (mutant) only the first coding of the concept is sent
ServiceTypeParamsFirstCodingOnly(st) ==
    IF st.tag = "CodeableConcept" /\ Len(st.coding) > 0
    THEN << <<Template(st.coding[1].system), "|", Template(st.coding[1].code)>> >>
    ELSE <<>>

\* the 'service-type' terms appended to the URLSearchParams
ServiceTypeParams(st) ==
    IF st.tag = "CodeableConcept"
    THEN [i \in 1..Len(st.coding) |-> <<Template(st.coding[i].system), "|", Template(st.coding[i].code)>>]
    ELSE <<>>

\* (mutant) the effect does not test the selector against null
EffectGuardIgnoresSelection(sched, st) == ~(sched = Undefined)

\* the effect's early return: no search without a schedule or a selection
EffectGuard(sched, st) == ~(sched = Undefined \/ st = Null)

NoError == "none"

NoUrl == [schedule |-> "", start |-> toISOString(0), end |-> toISOString(0), serviceType |-> <<>>]

\* `fhir/R4/Schedule/${schedule.id}/$find?${params}`
FindUrl(sched, st, rng, earliest) ==
    LET start == searchStart(rng, earliest)
        end   == searchEnd(rng, start)
    IN  [ schedule    |-> sched.id,
          start       |-> toISOString(start),
          end         |-> toISOString(end),
          serviceType |-> ServiceTypeParams(st) ]

\* A $find request as the effect issues it: the signal handed to
\* medplum.get and the effect's `completed` flag; and how it ended.
NewRequest ==
    [ aborted     |-> FALSE,
      completed   |-> FALSE,
      outcome     |-> "pending",
      error       |-> NoError,
      delivered   |-> FALSE,
      notified    |-> FALSE ]

\* (mutant) the cleanup never aborts
EffectCleanupNeverAborts(reqs, eff) == reqs

\* (mutant) the cleanup aborts without looking at `completed`
EffectCleanupAlwaysAborts(reqs, eff) ==
    IF eff # 0 THEN [reqs EXCEPT ![eff].aborted = TRUE] ELSE reqs

\* the effect's cleanup function
EffectCleanup(reqs, eff) ==
    IF eff # 0 /\ ~reqs[eff].completed
    THEN [reqs EXCEPT ![eff].aborted = TRUE]
    ELSE reqs

\* the effect body: the requests after it ran, the URL last fetched, and
\* the request the effect owns
RunEffect(reqs, url, sched, st, rng, clock) ==
    IF EffectGuard(sched, st)
    THEN [requests |-> Append(reqs, NewRequest),
          findUrl  |-> FindUrl(sched, st, rng, earliestSchedulable(clock)),
          effect   |-> Len(reqs) + 1]
    ELSE [requests |-> reqs, findUrl |-> url, effect |-> 0]

\* number of entries with a resource among the first k
ResourcesBefore(entry, k) == Cardinality({ j \in 1..k : entry[j].hasResource })

\* positions of the identifiers of a system in an identifier list
IdentifiersOf(identifier, system) == { k \in 1..Len(identifier) : identifier[k].system = system }

First(S) == CHOOSE k \in S : \A j \in S : k <= j

\* setIdentifier of @medplum/core: the value of the first identifier of the
\* system is overwritten; without one, a new identifier is appended
setIdentifier(resource, system, value, use) ==
    LET found == IdentifiersOf(resource.identifier, system)
    IN  IF found = {}
        THEN [resource EXCEPT !.identifier = Append(@, Identifier(use, system, value))]
        ELSE [resource EXCEPT !.identifier[First(found)].value = value]

\* (mutant) getIdentifier that takes the first identifier of any system
getIdentifierOfAnySystem(resource, system) ==
    IF resource.identifier = <<>> THEN NoTid ELSE resource.identifier[1].value

\* getIdentifier of @medplum/core: the value of the first identifier of
\* the system, undefined without one
getIdentifier(resource, system) ==
    LET found == IdentifiersOf(resource.identifier, system)
    IN  IF found = {} THEN NoTid ELSE resource.identifier[First(found)].value

\* (mutant) set that keeps the token of a resource that has one
SchedulingTransientIdentifier_setIfAbsent(resource, uuid) ==
    IF IdentifiersOf(resource.identifier, MedplumSchedulingTransientIdentifierURI) = {}
    THEN setIdentifier(resource, MedplumSchedulingTransientIdentifierURI, uuid, "temp")
    ELSE resource

\* (mutant) set that adds an identifier without looking for an earlier one
SchedulingTransientIdentifier_setAppends(resource, uuid) ==
    [resource EXCEPT !.identifier = Append(@, TransientIdentifier(uuid))]

\* SchedulingTransientIdentifier.set, with the token uuidv4() returned
SchedulingTransientIdentifier_set(resource, uuid) ==
    setIdentifier(resource, MedplumSchedulingTransientIdentifierURI, uuid, "temp")

\* SchedulingTransientIdentifier.get
SchedulingTransientIdentifier_get(resource) ==
    getIdentifier(resource, MedplumSchedulingTransientIdentifierURI)

\* bundle.entry.forEach(entry => entry.resource && SchedulingTransientIdentifier.set(entry.resource))
\* each call draws the next token
SetTransientIdentifiers(entry, uuid) ==
    [k \in 1..Len(entry) |->
        IF entry[k].hasResource
        THEN [entry[k] EXCEPT !.resource =
                 SchedulingTransientIdentifier_set(@, uuid + ResourcesBefore(entry, k) - 1)]
        ELSE entry[k]]

\* (mutant) the resources are not filtered
ResourcesUnfiltered(entry) == [k \in 1..Len(entry) |-> entry[k].resource]

\* bundle.entry.map(entry => entry.resource).filter(isDefined)
Resources(entry) ==
    LET defined == SelectSeq(entry, LAMBDA e : e.hasResource)
    IN  [k \in 1..Len(defined) |-> defined[k].resource]

\* the slot list the fulfilment handler sets
FulfilledSlots(bundle, uuid) ==
    IF bundle.hasEntry
    THEN SlotList(Resources(SetTransientIdentifiers(bundle.entry, uuid)))
    ELSE SlotList(<<>>)

\* (mutant) the fulfilment handler does not test the signal
DeliversEvenIfAborted(req) == TRUE

\* does the fulfilment handler deliver the bundle
Delivers(req) == ~req.aborted

\* (mutant) the rejection handler shows every error
ShowsErrorAlways(req) == TRUE

\* (mutant) the rejection handler shows no error
ShowsErrorNever(req) == FALSE

\* does the rejection handler show the error
ShowsError(req) == ~req.aborted

-----------------------------------------------------------------------------
(* The booking form: BookAppointmentForm.tsx, and the handlers its         *)
(* onSuccess reaches in FindPane.tsx and SchedulePage.tsx                  *)

\* createReference of @medplum/core: `${resourceType}/${id}`
createReference(resource) == [reference |-> <<resource.resourceType, "/", resource.id>>]

\* the body of the POST to Appointment/$book
Parameters(slot, patientReference) ==
    [resourceType |-> "Parameters", slot |-> slot, patientReference |-> patientReference]

\* A $book request: its body, how it ended, what onSuccess was called
\* with, and whether the form that posted it, and the page, still exist
NewBook(slot, who) ==
    [ parameters |-> Parameters(slot, createReference(who)),
      outcome    |-> "pending",
      results    |-> NoResults,
      form       |-> TRUE,
      page       |-> TRUE ]

\* (mutant) handleSubmit without its test of the patient
SubmitGuardIgnoresPatient(who) == TRUE

\* handleSubmit: `if (!patient) return`
SubmitGuard(who) == who # NoPatient

\* the submit button is disabled while loading
SubmitEnabled(isLoading) == ~isLoading

\* (mutant) the request is posted again
bookSlotPostsTwice(bks, slot, who) == Append(Append(bks, NewBook(slot, who)), NewBook(slot, who))

\* bookSlot up to its await: medplum.post(medplum.fhirUrl('Appointment', '$book'), ...)
bookSlot(bks, slot, who) == Append(bks, NewBook(slot, who))

\* resources.filter(obj => obj.resourceType === type)
OfResourceType(resources, type) == SelectSeq(resources, LAMBDA obj : obj.resourceType = type)

\* (mutant) the resources are handed over without being told apart
BookResultsUnpartitioned(bundle) ==
    LET resources == IF bundle.hasEntry THEN Resources(bundle.entry) ELSE EMPTY
    IN  [called |-> TRUE, appointments |-> resources, slots |-> resources]

\* what bookSlot calls onSuccess with
BookResults(bundle) ==
    LET resources == IF bundle.hasEntry THEN Resources(bundle.entry) ELSE EMPTY
    IN  [ called       |-> TRUE,
          appointments |-> OfResourceType(resources, "Appointment"),
          slots        |-> OfResourceType(resources, "Slot") ]

\* (mutant) setLoading(false) is left out
LoadingAfterSettleStuck(book, isLoading) == isLoading

\* finally: setLoading(false), on the form that posted the request if it
\* is still mounted
LoadingAfterSettle(book, isLoading) == IF book.form THEN FALSE ELSE isLoading

\* (mutant) handleSubmit swallows the error
ShowsBookErrorNever(error) == FALSE

\* handleSubmit: catch (error) { showErrorNotification(error) }
ShowsBookError(error) == TRUE

\* (mutant) unmounting the form cancels its requests
FormUnmountedCancels(bks) ==
    [k \in 1..Len(bks) |->
        [bks[k] EXCEPT !.form = FALSE,
                       !.outcome = IF @ = "pending" THEN "cancelled" ELSE @]]

\* the form unmounts: its requests no longer reach a mounted form
FormUnmounted(bks) == [k \in 1..Len(bks) |-> [bks[k] EXCEPT !.form = FALSE]]

\* the page unmounts: its requests no longer reach a mounted form or page
PageUnmounted(bks) == [k \in 1..Len(bks) |-> [bks[k] EXCEPT !.form = FALSE, !.page = FALSE]]

\* setAppointments(state => results.appointments.concat(state ?? EMPTY))
MergeAppointments(results, state) ==
    SlotList(results.appointments \o (IF state.defined THEN state.items ELSE EMPTY))

\* (mutant) the busy slots are merged too
MergeSlotsKeepsBusy(results, state) ==
    SlotList(results.slots \o (IF state.defined THEN state.items ELSE EMPTY))

\* setSlots(state => results.slots.filter(slot => slot.status !== 'busy').concat(state ?? EMPTY))
MergeSlots(results, state) ==
    SlotList(SelectSeq(results.slots, LAMBDA slot : slot.status # "busy")
                \o (IF state.defined THEN state.items ELSE EMPTY))

\* no form is mounted, nothing was booked, the page has fetched nothing
BookIdle ==
    /\ patient = NoPatient
    /\ loading = FALSE
    /\ books = <<>>
    /\ appointments = SlotsUndefined
    /\ pageSlots = SlotsUndefined
    /\ submits = NoSubmits

\* the schedule view has run no effect yet
ViewIdle ==
    /\ lookups = <<>>
    /\ serverSchedules = {}
    /\ slotFetches = <<>>
    /\ appointmentFetches = <<>>

\* no billing tab is rendered
ClaimIdle ==
    /\ claim = NoClaim
    /\ chargeItems = 0
    /\ creations = <<>>
    /\ saves = <<>>
    /\ claimUpdates = 0

-----------------------------------------------------------------------------
(* Initial state: the page has its schedule, the calendar has not reported *)
(* a range yet, so no pane is rendered.                                    *)

Init ==
    /\ now = 0
    /\ schedule \in Schedules
    /\ pool = <<>>
    /\ assigned = {}
    /\ lastGet = NoGet
    /\ patient = NoPatient
    /\ loading = FALSE
    /\ books = <<>>
    /\ appointments = SlotsUndefined
    /\ pageSlots = SlotsUndefined
    /\ submits = NoSubmits
    /\ rawSlots = <<>>
    /\ merged = NotMerged
    /\ ViewIdle
    /\ ClaimIdle
    /\ range = NoRange
    /\ mounted = FALSE
    /\ serviceType = Null
    /\ slots = SlotsUndefined
    /\ chosenSlot = NoSlot
    /\ requests = <<>>
    /\ findUrl = NoUrl
    /\ effect = 0
    /\ nextUuid = 1
    /\ notifications = 0

-----------------------------------------------------------------------------
(* What React does after a render in which a dependency of the search      *)
(* effect changed: the previous effect's cleanup, then the effect.         *)

RerunEffect(st, rng, clock) ==
    RunEffect(EffectCleanup(requests, effect), findUrl, schedule, st, rng, clock)

\* SchedulePage renders the pane only with service types, a schedule and a range
FindPaneRendered(sched, rng) ==
    /\ sched # Undefined
    /\ Len(serviceTypesFromSchedulingParameters(sched)) > 0
    /\ rng.defined

-----------------------------------------------------------------------------
(* Actions *)

\* Calendar.onRangeChange = setRange: the page re-renders; the pane mounts
\* (state initialised, effect run) or, if mounted, its effect re-runs.
setRange(r) ==
    /\ range' = r
    /\ IF FindPaneRendered(schedule, r)
       THEN LET st  == IF mounted THEN serviceType
                       ELSE InitialServiceType(serviceTypesFromSchedulingParameters(schedule))
                run == IF mounted THEN RerunEffect(st, r, now)
                       ELSE RunEffect(requests, findUrl, schedule, st, r, now)
            IN  /\ Len(run.requests) <= MaxRequests
                /\ mounted' = TRUE
                /\ serviceType' = st
                /\ slots' = IF mounted THEN slots ELSE SlotsUndefined
                /\ chosenSlot' = IF mounted THEN chosenSlot ELSE NoSlot
                /\ requests' = run.requests
                /\ findUrl' = run.findUrl
                /\ effect' = run.effect
       ELSE UNCHANGED <<mounted, serviceType, slots, chosenSlot, requests, findUrl, effect>>
    /\ UNCHANGED <<now, schedule, nextUuid, notifications>>
    /\ UNCHANGED <<tidVars, mergeVars, viewVars, claimVars, bookVars>>

\* Time passes: useSchedulingStartsAt returns a later instant, and the
\* effect of a mounted pane re-runs.
Tick ==
    /\ now < MaxTicks
    /\ now' = now + 1
    /\ IF mounted
       THEN LET run == RerunEffect(serviceType, range, now + 1)
            IN  /\ Len(run.requests) <= MaxRequests
                /\ requests' = run.requests
                /\ findUrl' = run.findUrl
                /\ effect' = run.effect
       ELSE UNCHANGED <<requests, findUrl, effect>>
    /\ UNCHANGED <<schedule, range, mounted, serviceType, slots, chosenSlot, nextUuid, notifications>>
    /\ UNCHANGED <<tidVars, mergeVars, viewVars, claimVars, bookVars>>

\* A service type button of the "Schedule..." list is clicked
setServiceType(i) ==
    /\ mounted
    /\ chosenSlot = NoSlot
    /\ serviceType = Null
    /\ i \in 1..Len(serviceTypesFromSchedulingParameters(schedule))
    /\ LET st  == serviceTypesFromSchedulingParameters(schedule)[i]
           run == RerunEffect(st, range, now)
       IN  /\ Len(run.requests) <= MaxRequests
           /\ serviceType' = st
           /\ requests' = run.requests
           /\ findUrl' = run.findUrl
           /\ effect' = run.effect
    /\ UNCHANGED <<now, schedule, range, mounted, slots, chosenSlot, nextUuid, notifications>>
    /\ UNCHANGED <<tidVars, mergeVars, viewVars, claimVars, bookVars>>

\* The "Clear selection" button of the slot list
handleDismiss ==
    /\ mounted
    /\ chosenSlot = NoSlot
    /\ serviceType # Null
    /\ Len(serviceTypesFromSchedulingParameters(schedule)) > 1
    /\ LET run == RerunEffect(Null, range, now)
       IN  /\ serviceType' = Null
           /\ slots' = SlotList(EMPTY)
           /\ requests' = run.requests
           /\ findUrl' = run.findUrl
           /\ effect' = run.effect
    /\ UNCHANGED <<now, schedule, range, mounted, chosenSlot, nextUuid, notifications>>
    /\ UNCHANGED <<tidVars, mergeVars, viewVars, claimVars, bookVars>>

\* (mutant) the button hands over the slot without its identifiers
SlotOfButtonWithoutIdentifiers(list, k) == [list.items[k] EXCEPT !.identifier = <<>>]

\* (slots ?? EMPTY).map(slot => <Button onClick={() => setChosenSlot(slot)}>):
\* the slot the k-th button hands over
SlotOfButton(list, k) == list.items[k]

\* A slot button is clicked
setChosenSlot(k) ==
    /\ mounted
    /\ chosenSlot = NoSlot
    /\ serviceType # Null
    /\ k \in 1..Len(slots.items)
    /\ chosenSlot' = SlotOfButton(slots, k)
    /\ UNCHANGED <<now, schedule, range, mounted, serviceType, slots, requests, findUrl,
                   effect, nextUuid, notifications>>
    /\ UNCHANGED <<tidVars, mergeVars, viewVars, claimVars, bookVars>>

\* The "Clear selection" button of the booking form view
clearChosenSlot ==
    /\ mounted
    /\ chosenSlot # NoSlot
    /\ chosenSlot' = NoSlot
    /\ patient' = NoPatient
    /\ loading' = FALSE
    /\ books' = FormUnmounted(books)
    /\ UNCHANGED <<now, schedule, range, mounted, serviceType, slots, requests, findUrl,
                   effect, nextUuid, notifications>>
    /\ UNCHANGED <<tidVars, mergeVars, viewVars, claimVars, appointments, pageSlots, submits>>

\* The page is left: the pane unmounts, its effect's cleanup runs, and the
\* state of page and pane is gone.
unmount ==
    /\ mounted
    /\ mounted' = FALSE
    /\ requests' = EffectCleanup(requests, effect)
    /\ effect' = 0
    /\ range' = NoRange
    /\ serviceType' = Null
    /\ slots' = SlotsUndefined
    /\ chosenSlot' = NoSlot
    /\ patient' = NoPatient
    /\ loading' = FALSE
    /\ books' = PageUnmounted(books)
    /\ appointments' = SlotsUndefined
    /\ pageSlots' = SlotsUndefined
    /\ UNCHANGED <<now, schedule, findUrl, nextUuid, notifications, tidVars, mergeVars, viewVars, claimVars, submits>>

\* medplum.get resolves with a bundle: the fulfilment handler, then finally
resolveFind(i, bundle) ==
    /\ i \in 1..Len(requests)
    /\ ~requests[i].completed
    /\ LET req == requests[i]
       IN  /\ requests' = [requests EXCEPT ![i].completed = TRUE,
                                           ![i].outcome = "fulfilled",
                                           ![i].delivered = Delivers(req)]
           /\ IF Delivers(req)
              THEN /\ slots' = FulfilledSlots(bundle, nextUuid)
                   /\ nextUuid' = nextUuid + ResourcesBefore(bundle.entry, Len(bundle.entry))
              ELSE UNCHANGED <<slots, nextUuid>>
    /\ UNCHANGED <<now, schedule, range, mounted, serviceType, chosenSlot, findUrl, effect,
                   notifications>>
    /\ UNCHANGED <<tidVars, mergeVars, viewVars, claimVars, bookVars>>

\* medplum.get rejects: the rejection handler, then finally.  A request
\* whose signal was aborted may reject with the abort error.
rejectFind(i, error) ==
    /\ i \in 1..Len(requests)
    /\ ~requests[i].completed
    /\ error = "AbortError" => requests[i].aborted
    /\ LET req == requests[i]
       IN  /\ requests' = [requests EXCEPT ![i].completed = TRUE,
                                           ![i].outcome = "rejected",
                                           ![i].error = error,
                                           ![i].notified = ShowsError(req)]
           /\ notifications' = IF ShowsError(req) THEN notifications + 1 ELSE notifications
    /\ UNCHANGED <<now, schedule, range, mounted, serviceType, slots, chosenSlot, findUrl,
                   effect, nextUuid>>
    /\ UNCHANGED <<tidVars, mergeVars, viewVars, claimVars, bookVars>>

Next ==
    \/ \E r \in Ranges : setRange(r)
    \/ Tick
    \/ \E i \in 1..Len(serviceTypesFromSchedulingParameters(schedule)) : setServiceType(i)
    \/ handleDismiss
    \/ \E k \in 1..Len(slots.items) : setChosenSlot(k)
    \/ clearChosenSlot
    \/ unmount
    \/ \E i \in 1..Len(requests), bundle \in Bundles : resolveFind(i, bundle)
    \/ \E i \in 1..Len(requests), error \in {"AbortError", "ServerError"} : rejectFind(i, error)

Spec == Init /\ [][Next]_vars

-----------------------------------------------------------------------------
(* The transient identifier registry on its own: set and get called on the *)
(* resource instances of a deserialised response, in any order.            *)

\* the page and the pane before the calendar reported a range
PaneIdle ==
    /\ now = 0
    /\ range = NoRange
    /\ mounted = FALSE
    /\ serviceType = Null
    /\ slots = SlotsUndefined
    /\ chosenSlot = NoSlot
    /\ requests = <<>>
    /\ findUrl = NoUrl
    /\ effect = 0
    /\ notifications = 0

paneVars == <<now, schedule, range, mounted, serviceType, slots, chosenSlot,
              requests, findUrl, effect, notifications>>

\* Entries of a response: a slot without identifiers, a slot with an
\* identifier of another system, a slot that already carries a transient
\* identifier, a slot with both, an entry without a resource
PoolEntries ==
    { Entry(Slot("slot-1", NoTid)),
      Entry(Resource("Slot", "slot-2", "free", <<BusinessIdentifier>>)),
      Entry(Slot("slot-3", ServerTid)),
      Entry(Resource("Slot", "slot-4", "free", <<BusinessIdentifier, TransientIdentifier(ServerTid)>>)),
      EntryWithoutResource }

TidInit ==
    /\ PaneIdle
    /\ schedule = Schedule("schedule-0", <<OtherExtension>>)
    /\ nextUuid = 1
    /\ pool \in [1..PoolSize -> PoolEntries]
    /\ assigned = {}
    /\ lastGet = NoGet
    /\ BookIdle
    /\ rawSlots = <<>>
    /\ merged = NotMerged
    /\ ViewIdle
    /\ ClaimIdle

\* SchedulingTransientIdentifier.set(resource) on the k-th instance
assign(k) ==
    /\ k \in 1..Len(pool)
    /\ pool[k].hasResource
    /\ nextUuid <= MaxAssigns
    /\ pool' = [pool EXCEPT ![k].resource = SchedulingTransientIdentifier_set(@, nextUuid)]
    /\ nextUuid' = nextUuid + 1
    /\ assigned' = assigned \cup {k}
    /\ UNCHANGED <<lastGet, paneVars, bookVars, mergeVars, viewVars, claimVars>>

\* entry.forEach(entry => entry.resource && SchedulingTransientIdentifier.set(entry.resource))
assignAll ==
    /\ ResourcesBefore(pool, Len(pool)) > 0
    /\ nextUuid + ResourcesBefore(pool, Len(pool)) - 1 <= MaxAssigns
    /\ pool' = SetTransientIdentifiers(pool, nextUuid)
    /\ nextUuid' = nextUuid + ResourcesBefore(pool, Len(pool))
    /\ assigned' = assigned \cup { k \in 1..Len(pool) : pool[k].hasResource }
    /\ UNCHANGED <<lastGet, paneVars, bookVars, mergeVars, viewVars, claimVars>>

\* SchedulingTransientIdentifier.get(resource) on the k-th instance
read(k) ==
    /\ k \in 1..Len(pool)
    /\ pool[k].hasResource
    /\ lastGet' = [k |-> k, value |-> SchedulingTransientIdentifier_get(pool[k].resource)]
    /\ UNCHANGED <<pool, assigned, nextUuid, paneVars, bookVars, mergeVars, viewVars, claimVars>>

TidNext ==
    \/ \E k \in 1..Len(pool) : assign(k)
    \/ assignAll
    \/ \E k \in 1..Len(pool) : read(k)

SpecTid == TidInit /\ [][TidNext]_vars

-----------------------------------------------------------------------------
(* Booking: the pane with the form it renders for the chosen slot, and the *)
(* lists of the schedule view that a booking is merged into.               *)

\* FindPane renders the form while a slot is chosen
FormMounted == mounted /\ chosenSlot # NoSlot

\* the practitioner's schedule offers one service type
BookSchedules == { sched \in Schedules : sched.id = "schedule-1" }

\* the range the calendar reports
BookRanges == { Range(35 * Minute, 120 * Minute) }

\* what $find answers: two free slots
BookFindBundles == { bundle \in Bundles : bundle.hasEntry /\ Len(bundle.entry) = 2 }

BookInit == Init /\ schedule \in BookSchedules

\* ResourceInput.onChange: a patient is picked or the input is cleared; a
\* resource of another type makes choosePatient throw
choosePatient(who) ==
    /\ FormMounted
    /\ ~loading
    /\ who.resourceType \in {"Patient", "undefined"}
    /\ patient' = who
    /\ UNCHANGED <<paneVars, nextUuid, tidVars, mergeVars, viewVars, claimVars, loading, books, appointments, pageSlots, submits>>

\* Form.onSubmit: handleSubmit, and bookSlot up to its await
handleSubmit ==
    /\ FormMounted
    /\ SubmitEnabled(loading)
    /\ submits.withPatient + submits.withoutPatient < MaxSubmits
    /\ submits' = IF patient = NoPatient
                  THEN [submits EXCEPT !.withoutPatient = @ + 1]
                  ELSE [submits EXCEPT !.withPatient = @ + 1]
    /\ IF SubmitGuard(patient)
       THEN /\ loading' = TRUE
            /\ books' = bookSlot(books, chosenSlot, patient)
       ELSE UNCHANGED <<loading, books>>
    /\ UNCHANGED <<paneVars, nextUuid, tidVars, mergeVars, viewVars, claimVars, patient, appointments, pageSlots>>

\* medplum.post resolves: the rest of bookSlot.  onSuccess is FindPane's
\* handleBookSuccess, which resets the pane (the form unmounts, the search
\* effect's cleanup runs) and calls SchedulePage's handleBookSuccess; on a
\* page that was left, the state updates are dropped.
resolveBook(i, bundle) ==
    /\ i \in 1..Len(books)
    /\ books[i].outcome = "pending"
    /\ LET results == BookResults(bundle)
           settled == [books EXCEPT ![i].outcome = "fulfilled", ![i].results = results]
       IN  IF books[i].page
           THEN LET run == RerunEffect(Null, range, now)
                IN  /\ serviceType' = Null
                    /\ slots' = SlotList(<<>>)
                    /\ chosenSlot' = NoSlot
                    /\ requests' = run.requests
                    /\ findUrl' = run.findUrl
                    /\ effect' = run.effect
                    /\ appointments' = MergeAppointments(results, appointments)
                    /\ pageSlots' = MergeSlots(results, pageSlots)
                    /\ patient' = NoPatient
                    /\ loading' = FALSE
                    /\ books' = FormUnmounted(settled)
           ELSE /\ books' = settled
                /\ loading' = LoadingAfterSettle(books[i], loading)
                /\ UNCHANGED <<serviceType, slots, chosenSlot, requests, findUrl, effect,
                               appointments, pageSlots, patient>>
    /\ UNCHANGED <<now, schedule, range, mounted, nextUuid, notifications, tidVars, mergeVars, viewVars, claimVars, submits>>

\* medplum.post rejects: bookSlot's finally, then handleSubmit's catch
rejectBook(i, error) ==
    /\ i \in 1..Len(books)
    /\ books[i].outcome = "pending"
    /\ books' = [books EXCEPT ![i].outcome = "rejected"]
    /\ loading' = LoadingAfterSettle(books[i], loading)
    /\ notifications' = IF ShowsBookError(error) THEN notifications + 1 ELSE notifications
    /\ UNCHANGED <<now, schedule, range, mounted, serviceType, slots, chosenSlot, requests,
                   findUrl, effect, nextUuid, tidVars, mergeVars, viewVars, claimVars, patient, appointments, pageSlots, submits>>

BookNext ==
    \/ \E r \in BookRanges : setRange(r)
    \/ \E i \in 1..Len(serviceTypesFromSchedulingParameters(schedule)) : setServiceType(i)
    \/ \E k \in 1..Len(slots.items) : setChosenSlot(k)
    \/ clearChosenSlot
    \/ \E i \in 1..Len(requests), bundle \in BookFindBundles : resolveFind(i, bundle)
    \/ \E who \in {HomerSimpson, NoPatient, DrAliceSmith} : choosePatient(who)
    \/ handleSubmit
    \/ \E i \in 1..Len(books), bundle \in BookBundles : resolveBook(i, bundle)
    \/ \E i \in 1..Len(books), error \in {"ServerError"} : rejectBook(i, error)

SpecBook == BookInit /\ [][BookNext]_vars

-----------------------------------------------------------------------------
(* A booking in flight: what the user does to the pane between the post of *)
(* a $book request and its response.                                       *)

\* a $book request has been posted and has not settled
BookInFlight == \E i \in 1..Len(books) : books[i].outcome = "pending"

\* the ranges the calendar reports
FlightRanges == { Range(35 * Minute, 120 * Minute), Range(60 * Minute, 60 * Minute) }

\* what $book answers: the appointment, the consumed slot and a buffer slot
FlightBundles == { bundle \in BookBundles : bundle.hasEntry /\ Len(Resources(bundle.entry)) = 3 }

\* Calendar.onRangeChange: the first range, which mounts the pane, and a
\* change of the range while a $book request is in flight
setRangeInFlight(r) ==
    /\ mounted => BookInFlight
    /\ setRange(r)

FlightNext ==
    \/ \E r \in FlightRanges : setRangeInFlight(r)
    \/ \E k \in 1..Len(slots.items) : setChosenSlot(k)
    \/ clearChosenSlot
    \/ \E i \in 1..Len(requests), bundle \in BookFindBundles : resolveFind(i, bundle)
    \/ \E who \in {HomerSimpson} : choosePatient(who)
    \/ handleSubmit
    \/ \E i \in 1..Len(books), bundle \in FlightBundles : resolveBook(i, bundle)
    \/ \E i \in 1..Len(books), error \in {"ServerError"} : rejectBook(i, error)

SpecFlight == BookInit /\ [][FlightNext]_vars

-----------------------------------------------------------------------------
(* The interval merge (utils/slots), as the slot fetch of SchedulePage     *)
(* applies it to what the server returned.                                 *)

Max(a, b) == IF a >= b THEN a ELSE b

\* a list sorted by start, with one more interval put in its place
RECURSIVE InsertByStart(_, _)
InsertByStart(sorted, interval) ==
    IF sorted = <<>> THEN <<interval>>
    ELSE IF interval.start < Head(sorted).start THEN <<interval>> \o sorted
    ELSE <<Head(sorted)>> \o InsertByStart(Tail(sorted), interval)

\* sort by start ascending
RECURSIVE SortByStart(_)
SortByStart(intervals) ==
    IF intervals = <<>> THEN <<>>
    ELSE InsertByStart(SortByStart(SubSeq(intervals, 1, Len(intervals) - 1)),
                       intervals[Len(intervals)])

\* the single scan: the next interval is merged into the accumulator when
\* next.start <= accumulator.end, otherwise the accumulator is flushed
RECURSIVE Scan(_, _, _)
Scan(rest, accumulator, flushed) ==
    IF rest = <<>> THEN Append(flushed, accumulator)
    ELSE IF Head(rest).start <= accumulator.end
         THEN Scan(Tail(rest),
                   [accumulator EXCEPT !.end = Max(accumulator.end, Head(rest).end)], flushed)
         ELSE Scan(Tail(rest), Head(rest), Append(flushed, accumulator))

mergeOverlappingSlots(intervals) ==
    IF intervals = <<>> THEN <<>>
    ELSE LET sorted == SortByStart(intervals)
         IN  Scan(Tail(sorted), Head(sorted), <<>>)

\* (mutant) the slots are set as the server returned them
FetchedSlotsUnmerged(raw) == raw

\* setSlots(mergeOverlappingSlots(rawSlots))
FetchedSlots(raw) == mergeOverlappingSlots(raw)

\* the intervals of the time line: start < end
Intervals ==
    { interval \in [start : 0..MaxInstant, end : 0..MaxInstant] : interval.start < interval.end }

\* the lists a range fetch may return: empty, one interval, several in any
\* order, nested, overlapping, touching, apart, repeated
IntervalLists == UNION { [1..n -> Intervals] : n \in 0..MaxIntervals }

MergeInit ==
    /\ PaneIdle
    /\ schedule = Schedule("schedule-0", <<OtherExtension>>)
    /\ nextUuid = 1
    /\ pool = <<>>
    /\ assigned = {}
    /\ lastGet = NoGet
    /\ BookIdle
    /\ rawSlots \in IntervalLists
    /\ merged = NotMerged
    /\ ViewIdle
    /\ ClaimIdle

\* the slot fetch resolves: .then(rawSlots => active && setSlots(mergeOverlappingSlots(rawSlots)))
resolveSlots ==
    /\ ~merged.done
    /\ merged' = [done |-> TRUE, items |-> FetchedSlots(rawSlots)]
    /\ UNCHANGED <<rawSlots, paneVars, nextUuid, tidVars, bookVars, viewVars, claimVars>>

MergeNext == resolveSlots

SpecMerge == MergeInit /\ [][MergeNext]_vars

-----------------------------------------------------------------------------
(* The schedule view: SchedulePage.tsx.  Its find-or-create effect looks   *)
(* the practitioner's Schedule up and creates one if the search finds      *)
(* none; its two range fetches load the Slots and the Appointments of the  *)
(* range the calendar shows, each guarded by the `active` flag of the      *)
(* effect run that issued it.  The profile is that of a practitioner who   *)
(* is logged in; the find pane is present by the $book requests posted     *)
(* from it while the page renders it.                                      *)

\* A run of the find-or-create effect: its searchOne and, if that found
\* nothing, its createResource
NewLookup == [search |-> "pending", create |-> "idle"]

\* the Schedule that createResource returns: resourceType, actor, active,
\* and the id the server gave it; no scheduling parameters
CreatedSchedule(k) ==
    Schedule(<<"created-1", "created-2", "created-3", "created-4", "created-5">>[k], <<>>)

\* the Schedules of the practitioner that the server may hold beforehand
ServerSchedules == { sched \in Schedules : sched.id \in {"schedule-1", "schedule-3"} }

\* useEffect(..., [medplum, schedule, range]): did the schedule dependency change
ScheduleChanged(old, new) == old # new

\* A range fetch: the range and the schedule of the render that issued it,
\* the `active` flag of its effect run, how it ended, whether its handler
\* acted, and the $book requests whose results the lists already held when
\* it was issued
NewFetch(rng, sched, bks) ==
    [ range    |-> rng,
      schedule |-> sched,
      active   |-> TRUE,
      outcome  |-> "pending",
      applied  |-> FALSE,
      merged   |-> { i \in 1..Len(bks) : bks[i].outcome = "fulfilled" } ]

\* the cleanup of a fetch effect: active = false
FetchCleanup(fetches) == [k \in 1..Len(fetches) |-> [fetches[k] EXCEPT !.active = FALSE]]

\* the Slot fetch effect after its cleanup: `if (!schedule || !range) return`
SlotFetchEffect(fetches, sched, rng, bks) ==
    IF sched = Undefined \/ ~rng.defined
    THEN FetchCleanup(fetches)
    ELSE Append(FetchCleanup(fetches), NewFetch(rng, sched, bks))

\* the Appointment fetch effect after its cleanup: `if (!profile || !range) return`
AppointmentFetchEffect(fetches, sched, rng, bks) ==
    IF ~rng.defined
    THEN FetchCleanup(fetches)
    ELSE Append(FetchCleanup(fetches), NewFetch(rng, sched, bks))

\* (mutant) the fetch handlers do not test the flag
FetchWritesAlways(fetch) == TRUE

\* `active && setSlots(...)`, `active && showErrorNotification(error)`
FetchWrites(fetch) == fetch.active

\* the page before the calendar reported a range
PageIdle ==
    /\ PaneIdle
    /\ nextUuid = 1
    /\ pool = <<>>
    /\ assigned = {}
    /\ lastGet = NoGet
    /\ BookIdle
    /\ rawSlots = <<>>
    /\ merged = NotMerged
    /\ ClaimIdle
    /\ slotFetches = <<>>
    /\ appointmentFetches = <<>>

\* setSchedule: the page renders again, and the Slot fetch effect runs
\* again if its schedule dependency changed
setSchedule(sched) ==
    /\ schedule' = sched
    /\ slotFetches' = IF ScheduleChanged(schedule, sched)
                      THEN SlotFetchEffect(slotFetches, sched, range, books)
                      ELSE slotFetches
    /\ Len(slotFetches') <= MaxFetches

\* The find-or-create effect runs again: StrictMode's second invocation, or
\* a change of the profile or of the client
findOrCreate ==
    /\ Len(lookups) < MaxLookups
    /\ lookups' = Append(lookups, NewLookup)
    /\ UNCHANGED <<paneVars, nextUuid, tidVars, bookVars, mergeVars, claimVars>>
    /\ UNCHANGED <<serverSchedules, slotFetches, appointmentFetches>>

\* searchOne resolves with a Schedule of the practitioner, or with
\* undefined if the server holds none: setSchedule, or createResource
resolveSearch(i, found) ==
    /\ i \in 1..Len(lookups)
    /\ lookups[i].search = "pending"
    /\ IF serverSchedules = {}
       THEN /\ found = Undefined
            /\ lookups' = [lookups EXCEPT ![i].search = "none", ![i].create = "pending"]
            /\ UNCHANGED <<schedule, slotFetches>>
       ELSE /\ found \in serverSchedules
            /\ lookups' = [lookups EXCEPT ![i].search = "found"]
            /\ setSchedule(found)
    /\ UNCHANGED <<now, range, mounted, serviceType, slots, chosenSlot, requests, findUrl,
                   effect, notifications>>
    /\ UNCHANGED <<nextUuid, tidVars, bookVars, mergeVars, claimVars>>
    /\ UNCHANGED <<serverSchedules, appointmentFetches>>

\* searchOne rejects: .catch(showErrorNotification)
rejectSearch(i) ==
    /\ i \in 1..Len(lookups)
    /\ lookups[i].search = "pending"
    /\ lookups' = [lookups EXCEPT ![i].search = "rejected"]
    /\ notifications' = notifications + 1
    /\ UNCHANGED <<now, schedule, range, mounted, serviceType, slots, chosenSlot, requests,
                   findUrl, effect>>
    /\ UNCHANGED <<nextUuid, tidVars, bookVars, mergeVars, claimVars>>
    /\ UNCHANGED <<serverSchedules, slotFetches, appointmentFetches>>

\* createResource resolves: the server holds one Schedule more; setSchedule
resolveCreate(i) ==
    /\ i \in 1..Len(lookups)
    /\ lookups[i].create = "pending"
    /\ LET created == CreatedSchedule(Cardinality(serverSchedules) + 1)
       IN  /\ serverSchedules' = serverSchedules \cup {created}
           /\ lookups' = [lookups EXCEPT ![i].create = "created"]
           /\ setSchedule(created)
    /\ UNCHANGED <<now, range, mounted, serviceType, slots, chosenSlot, requests, findUrl,
                   effect, notifications>>
    /\ UNCHANGED <<nextUuid, tidVars, bookVars, mergeVars, claimVars>>
    /\ UNCHANGED appointmentFetches

\* createResource rejects: .catch(showErrorNotification)
rejectCreate(i) ==
    /\ i \in 1..Len(lookups)
    /\ lookups[i].create = "pending"
    /\ lookups' = [lookups EXCEPT ![i].create = "rejected"]
    /\ notifications' = notifications + 1
    /\ UNCHANGED <<now, schedule, range, mounted, serviceType, slots, chosenSlot, requests,
                   findUrl, effect>>
    /\ UNCHANGED <<nextUuid, tidVars, bookVars, mergeVars, claimVars>>
    /\ UNCHANGED <<serverSchedules, slotFetches, appointmentFetches>>

\* The page has mounted and its find-or-create effect has run once; the
\* server holds no Schedule of the practitioner, or one
LookupInit ==
    /\ PageIdle
    /\ schedule = Undefined
    /\ lookups = <<NewLookup>>
    /\ serverSchedules \in {{}} \cup { {sched} : sched \in ServerSchedules }

LookupNext ==
    \/ findOrCreate
    \/ \E i \in 1..Len(lookups), found \in serverSchedules \cup {Undefined} : resolveSearch(i, found)
    \/ \E i \in 1..Len(lookups) : rejectSearch(i)
    \/ \E i \in 1..Len(lookups) : resolveCreate(i)
    \/ \E i \in 1..Len(lookups) : rejectCreate(i)

SpecLookup == LookupInit /\ [][LookupNext]_vars

-----------------------------------------------------------------------------
(* The range fetches of the schedule view, and the booking results merged  *)
(* into its lists.                                                         *)

\* a Slot with its interval, as the Slot search returns it
ViewSlot(id, status, start, end) ==
    [resourceType |-> "Slot", id |-> id, status |-> status, identifier |-> <<>>,
     start |-> start, end |-> end]

\* What the Slot search may return (status free or busy-unavailable): none,
\* a blocked time, a free time that overlaps the blocked time
RawSlotLists ==
    { <<>>,
      <<ViewSlot("blocked-1", "busy-unavailable", 2, 4)>>,
      <<ViewSlot("blocked-1", "busy-unavailable", 2, 4), ViewSlot("free-1", "free", 3, 5)>> }

\* what the Appointment search may return
AppointmentLists == { <<>>, <<Appointment("appointment-0")>> }

\* What $book answers the i-th request with: the appointment, the slot it
\* consumed (busy), and the buffer after it (busy-unavailable); the
\* appointments follow one another on the time line
ViewBookBundle(i) ==
    LET appointment == <<"appointment-1", "appointment-2", "appointment-3">>[i]
        buffer      == <<"buffer-1", "buffer-2", "buffer-3">>[i]
    IN  Bundle(TRUE, <<Entry(Appointment(appointment)),
                       Entry(ViewSlot("booked", "busy", 2 * i - 2, 2 * i - 1)),
                       Entry(ViewSlot(buffer, "busy-unavailable", 2 * i - 1, 2 * i))>>)

\* Calendar.onRangeChange = setRange: the page renders again, and both
\* fetch effects run again (cleanup, then the effect)
onRangeChange(r) ==
    /\ r # range
    /\ range' = r
    /\ slotFetches' = SlotFetchEffect(slotFetches, schedule, r, books)
    /\ appointmentFetches' = AppointmentFetchEffect(appointmentFetches, schedule, r, books)
    /\ Len(slotFetches') <= MaxFetches
    /\ Len(appointmentFetches') <= MaxFetches
    /\ UNCHANGED <<now, schedule, mounted, serviceType, slots, chosenSlot, requests, findUrl,
                   effect, notifications>>
    /\ UNCHANGED <<nextUuid, tidVars, bookVars, mergeVars, claimVars>>
    /\ UNCHANGED <<lookups, serverSchedules>>

\* the Slot search resolves: active && setSlots(mergeOverlappingSlots(rawSlots))
resolveSlotFetch(i, raw) ==
    /\ i \in 1..Len(slotFetches)
    /\ slotFetches[i].outcome = "pending"
    /\ slotFetches' = [slotFetches EXCEPT ![i].outcome = "fulfilled",
                                          ![i].applied = FetchWrites(slotFetches[i])]
    /\ pageSlots' = IF FetchWrites(slotFetches[i]) THEN SlotList(FetchedSlots(raw)) ELSE pageSlots
    /\ UNCHANGED <<paneVars, nextUuid, tidVars, mergeVars, claimVars>>
    /\ UNCHANGED <<patient, loading, books, appointments, submits>>
    /\ UNCHANGED <<lookups, serverSchedules, appointmentFetches>>

\* the Slot search rejects: active && showErrorNotification(error)
rejectSlotFetch(i) ==
    /\ i \in 1..Len(slotFetches)
    /\ slotFetches[i].outcome = "pending"
    /\ slotFetches' = [slotFetches EXCEPT ![i].outcome = "rejected",
                                          ![i].applied = FetchWrites(slotFetches[i])]
    /\ notifications' = IF FetchWrites(slotFetches[i]) THEN notifications + 1 ELSE notifications
    /\ UNCHANGED <<now, schedule, range, mounted, serviceType, slots, chosenSlot, requests,
                   findUrl, effect>>
    /\ UNCHANGED <<nextUuid, tidVars, bookVars, mergeVars, claimVars>>
    /\ UNCHANGED <<lookups, serverSchedules, appointmentFetches>>

\* the Appointment search resolves: active && setAppointments(appointments)
resolveAppointmentFetch(i, list) ==
    /\ i \in 1..Len(appointmentFetches)
    /\ appointmentFetches[i].outcome = "pending"
    /\ appointmentFetches' = [appointmentFetches EXCEPT
                                ![i].outcome = "fulfilled",
                                ![i].applied = FetchWrites(appointmentFetches[i])]
    /\ appointments' = IF FetchWrites(appointmentFetches[i]) THEN SlotList(list) ELSE appointments
    /\ UNCHANGED <<paneVars, nextUuid, tidVars, mergeVars, claimVars>>
    /\ UNCHANGED <<patient, loading, books, pageSlots, submits>>
    /\ UNCHANGED <<lookups, serverSchedules, slotFetches>>

\* the Appointment search rejects: active && showErrorNotification(error)
rejectAppointmentFetch(i) ==
    /\ i \in 1..Len(appointmentFetches)
    /\ appointmentFetches[i].outcome = "pending"
    /\ appointmentFetches' = [appointmentFetches EXCEPT
                                ![i].outcome = "rejected",
                                ![i].applied = FetchWrites(appointmentFetches[i])]
    /\ notifications' = IF FetchWrites(appointmentFetches[i]) THEN notifications + 1
                        ELSE notifications
    /\ UNCHANGED <<now, schedule, range, mounted, serviceType, slots, chosenSlot, requests,
                   findUrl, effect>>
    /\ UNCHANGED <<nextUuid, tidVars, bookVars, mergeVars, claimVars>>
    /\ UNCHANGED <<lookups, serverSchedules, slotFetches>>

\* The booking form of the find pane, which the page renders with
\* onSuccess = handleBookSuccess, posts a $book request
postBook(slot, who) ==
    /\ FindPaneRendered(schedule, range)
    /\ SubmitEnabled(loading)
    /\ Len(books) < MaxSubmits
    /\ loading' = TRUE
    /\ books' = bookSlot(books, slot, who)
    /\ UNCHANGED <<paneVars, nextUuid, tidVars, mergeVars, viewVars, claimVars>>
    /\ UNCHANGED <<patient, appointments, pageSlots, submits>>

\* The page has mounted under StrictMode, its find-or-create effect has
\* run twice; the server holds two Schedules of the practitioner
ViewInit ==
    /\ PageIdle
    /\ schedule = Undefined
    /\ lookups = <<NewLookup, NewLookup>>
    /\ serverSchedules = ServerSchedules

ViewNext ==
    \/ \E i \in 1..Len(lookups), found \in serverSchedules : resolveSearch(i, found)
    \/ \E r \in FlightRanges : onRangeChange(r)
    \/ \E i \in 1..Len(slotFetches), raw \in RawSlotLists : resolveSlotFetch(i, raw)
    \/ \E i \in 1..Len(slotFetches) : rejectSlotFetch(i)
    \/ \E i \in 1..Len(appointmentFetches), list \in AppointmentLists :
            resolveAppointmentFetch(i, list)
    \/ \E i \in 1..Len(appointmentFetches) : rejectAppointmentFetch(i)

SpecView == ViewInit /\ [][ViewNext]_vars

\* The page has found the Schedule of the practitioner
ResultsInit ==
    /\ PageIdle
    /\ schedule \in BookSchedules
    /\ serverSchedules = {schedule}
    /\ lookups = <<[NewLookup EXCEPT !.search = "found"]>>

ResultsNext ==
    \/ \E r \in FlightRanges : onRangeChange(r)
    \/ \E i \in 1..Len(slotFetches), raw \in RawSlotLists : resolveSlotFetch(i, raw)
    \/ \E i \in 1..Len(appointmentFetches), list \in AppointmentLists :
            resolveAppointmentFetch(i, list)
    \/ postBook(Slot("slot-1", NoTid), HomerSimpson)
    \/ \E i \in 1..Len(books) : resolveBook(i, ViewBookBundle(i))

SpecResults == ResultsInit /\ [][ResultsNext]_vars

-----------------------------------------------------------------------------
(* The billing tab (BillingTab): syncClaim, called when the charge items   *)
(* change, after a debounced change of the encounter was saved, and by the *)
(* re-sync effect.  Patient, encounter and practitioner are present;       *)
(* claimRef.current is the claim of the last render.  What                 *)
(* createClaimFromEncounter does is known here by its call alone: it       *)
(* returns a Claim, which is then set, or nothing.                         *)

\* a Claim as the tab holds it
Claim(id) == [resourceType |-> "Claim", id |-> id]

\* the creations that have returned a Claim
ClaimsCreated == { i \in 1..Len(creations) : creations[i] = "created" }

\* syncClaim with the charge items it creates from: with a claim
\* (`if (currentClaim)`), setClaim(updatedClaim) and
\* debouncedUpdateResource(updatedClaim), which keeps one update waiting;
\* without one, the guard on the items and createClaimFromEncounter up to
\* its await
syncClaim(items) ==
    IF claim # NoClaim
    THEN /\ claimUpdates' = 1
         /\ UNCHANGED creations
    ELSE IF items = 0
    THEN UNCHANGED <<claimUpdates, creations>>
    ELSE /\ Len(creations) < MaxCreations
         /\ creations' = Append(creations, "pending")
         /\ UNCHANGED claimUpdates

\* updateChargeItems: setChargeItems, the guard, syncClaim(patch, {items})
updateChargeItems(items) ==
    /\ items # chargeItems
    /\ chargeItems' = items
    /\ syncClaim(items)
    /\ UNCHANGED <<paneVars, nextUuid, tidVars, bookVars, mergeVars, viewVars>>
    /\ UNCHANGED <<claim, saves>>

\* handleEncounterChange when its debounce has run out, up to its first
\* await: medplum.updateResource(updatedEncounter)
handleEncounterChange ==
    /\ Len(saves) < MaxSaves
    /\ saves' = Append(saves, [outcome |-> "pending", chargeItems |-> chargeItems])
    /\ UNCHANGED <<paneVars, nextUuid, tidVars, bookVars, mergeVars, viewVars>>
    /\ UNCHANGED <<claim, chargeItems, creations, claimUpdates>>

\* updateResource and readReference resolve: setEncounter, setPractitioner,
\* the guard on the charge items of the render that called, syncClaim
resolveEncounterSave(i) ==
    /\ i \in 1..Len(saves)
    /\ saves[i].outcome = "pending"
    /\ saves' = [saves EXCEPT ![i].outcome = "fulfilled"]
    /\ syncClaim(saves[i].chargeItems)
    /\ UNCHANGED <<paneVars, nextUuid, tidVars, bookVars, mergeVars, viewVars>>
    /\ UNCHANGED <<claim, chargeItems>>

\* createClaimFromEncounter returns a Claim: setClaim(newClaim); the claim
\* id has changed, so the re-sync effect runs and calls syncClaim()
resolveClaimCreation(i) ==
    /\ i \in 1..Len(creations)
    /\ creations[i] = "pending"
    /\ creations' = [creations EXCEPT ![i] = "created"]
    /\ claim' = Claim(<<"claim-1", "claim-2", "claim-3">>[Cardinality(ClaimsCreated) + 1])
    /\ UNCHANGED <<paneVars, nextUuid, tidVars, bookVars, mergeVars, viewVars>>
    /\ claimUpdates' = 1
    /\ UNCHANGED <<chargeItems, saves>>

\* createClaimFromEncounter returns nothing: `if (newClaim)` fails
declineClaimCreation(i) ==
    /\ i \in 1..Len(creations)
    /\ creations[i] = "pending"
    /\ creations' = [creations EXCEPT ![i] = "none"]
    /\ UNCHANGED <<paneVars, nextUuid, tidVars, bookVars, mergeVars, viewVars>>
    /\ UNCHANGED <<claim, chargeItems, saves, claimUpdates>>

\* The re-sync effect after conditions or coverage changed:
\* `if (!claimRef.current) return`, syncClaim()
resyncClaim ==
    /\ claim # NoClaim
    /\ syncClaim(chargeItems)
    /\ UNCHANGED <<paneVars, nextUuid, tidVars, bookVars, mergeVars, viewVars>>
    /\ UNCHANGED <<claim, chargeItems, saves>>

\* the debounce of debouncedUpdateResource has run out: the claim is saved
saveClaim ==
    /\ claimUpdates = 1
    /\ claimUpdates' = 0
    /\ UNCHANGED <<paneVars, nextUuid, tidVars, bookVars, mergeVars, viewVars>>
    /\ UNCHANGED <<claim, chargeItems, creations, saves>>

\* The tab is rendered for an encounter with or without a claim, and with
\* or without a charge item
ClaimInit ==
    /\ PaneIdle
    /\ schedule = Undefined
    /\ nextUuid = 1
    /\ pool = <<>>
    /\ assigned = {}
    /\ lastGet = NoGet
    /\ BookIdle
    /\ rawSlots = <<>>
    /\ merged = NotMerged
    /\ ViewIdle
    /\ claim \in {NoClaim, Claim("claim-0")}
    /\ chargeItems \in 0..1
    /\ creations = <<>>
    /\ saves = <<>>
    /\ claimUpdates = 0

ClaimNext ==
    \/ \E items \in 0..MaxItems : updateChargeItems(items)
    \/ handleEncounterChange
    \/ \E i \in 1..Len(saves) : resolveEncounterSave(i)
    \/ \E i \in 1..Len(creations) : resolveClaimCreation(i)
    \/ \E i \in 1..Len(creations) : declineClaimCreation(i)
    \/ resyncClaim
    \/ saveClaim

SpecClaim == ClaimInit /\ [][ClaimNext]_vars

-----------------------------------------------------------------------------
(* Steps of a behaviour, as the properties below speak of them *)

\* a $find request is issued in this step
Issues == Len(requests') > Len(requests)

\* request i settles in this step
Settles(i) == ~requests[i].completed /\ requests'[i].completed

\* request i belongs to the live effect of the mounted pane
Current(i) == mounted /\ effect = i

\* the state of the pane is left as it is
PaneUnchanged == UNCHANGED <<serviceType, slots, chosenSlot>>

-----------------------------------------------------------------------------
(* C1..C10: the availability search *)

\* C1: when a later $find search was issued before a search settled, the
\* earlier search's response, whenever it arrives, writes nothing to the
\* pane: a response is delivered to the slot list only by the search issued
\* last.
C1_SupersededSearchIsDiscarded ==
    [][\A i \in 1..Len(requests) :
          /\ (Settles(i) /\ i < Len(requests)) =>
                (~requests'[i].delivered /\ PaneUnchanged /\ nextUuid' = nextUuid)
          /\ (~requests[i].delivered /\ requests'[i].delivered) => i = Len(requests)
      ]_vars

\* a superseded search resolved with a bundle after the search that
\* replaced it delivered
C1_Witness ==
    \E i, j \in 1..Len(requests) :
        /\ i < j
        /\ requests[i].outcome = "fulfilled" /\ ~requests[i].delivered
        /\ requests[j].delivered
        /\ slots.defined /\ Len(slots.items) = 2

\* C2: a cancelled $find search (superseded or torn down) never reaches the
\* error path, however its promise settles.
C2_CancelledSearchShowsNoError ==
    [][\A i \in 1..Len(requests) :
          (Settles(i) /\ (requests[i].aborted \/ ~Current(i))) =>
                (notifications' = notifications /\ ~requests'[i].notified)
      ]_vars

\* a cancelled search rejected with a genuine server error and nothing was shown
C2_Witness ==
    \E i \in 1..Len(requests) :
        /\ requests[i].aborted
        /\ requests[i].outcome = "rejected" /\ requests[i].error = "ServerError"
        /\ notifications = 0

\* C3: when a search context is torn down (unmount, or a dependency change
\* that re-runs the effect) its request's signal is aborted exactly if the
\* request has not settled; a settled request is never aborted.
C3_TeardownAbortsUnsettledOnly ==
    [][\A i \in 1..Len(requests) :
          /\ (effect = i /\ effect' # i) => (requests'[i].aborted <=> ~requests[i].completed)
          /\ (requests[i].completed /\ ~requests[i].aborted) => ~requests'[i].aborted
          /\ requests[i].aborted => requests'[i].aborted
      ]_vars

\* one context was torn down after its request settled, another before
C3_Witness ==
    \E i, j \in 1..Len(requests) :
        /\ requests[i].completed /\ ~requests[i].aborted /\ effect # i
        /\ requests[j].aborted /\ ~requests[j].completed

\* C4: no $find request is issued while the selector is in no-selection:
\* with two or more service types the pane mounts without a selection and
\* without a search, and with no service type the pane is never rendered
\* and no search is ever issued.
C4_NoSearchWithoutSelection ==
    [][/\ Issues => (mounted' /\ serviceType' # Null)
       /\ (~mounted /\ mounted'
             /\ Len(serviceTypesFromSchedulingParameters(schedule)) >= 2) =>
                (serviceType' = Null /\ requests' = requests)
       /\ Len(serviceTypesFromSchedulingParameters(schedule)) = 0 =>
                (~mounted' /\ requests' = <<>>)
      ]_vars

\* a pane without a selection whose range is no longer the one of the only
\* search issued: the range changed in no-selection and nothing was sent
C4_Witness ==
    /\ mounted
    /\ serviceType = Null
    /\ Len(requests) = 1
    /\ findUrl.start.iso8601 = 60 * Minute
    /\ range.start = 35 * Minute

\* C5: a pane created for a schedule with exactly one service type starts
\* with the selector resolved to it (to the wildcard if the declaration has
\* no coded value) and issues a $find search at once.
C5_SingleServiceTypeAutoSelects ==
    [][(~mounted /\ mounted'
          /\ Len(serviceTypesFromSchedulingParameters(schedule)) = 1) =>
            LET k == CHOOSE k \in 1..Len(schedule.extension) :
                        schedule.extension[k].url = SchedulingParametersURI
            IN  /\ serviceType' = schedule.extension[k].serviceType
                /\ serviceType' # Null
                /\ Len(requests') = Len(requests) + 1
                /\ effect' = Len(requests')
                /\ ~requests'[effect'].aborted /\ ~requests'[effect'].completed
      ]_vars

\* the pane of a schedule whose only declaration has no coded value:
\* wildcard selected and a search in flight without any user action
C5_Witness ==
    /\ mounted
    /\ Len(serviceTypesFromSchedulingParameters(schedule)) = 1
    /\ serviceType = Undefined
    /\ Len(requests) = 1 /\ effect = 1 /\ ~requests[1].completed

C7_StartIsClamped ==
    [][Issues =>
          LET earliest == now' * TickMs + 30 * 60 * 1000
              later    == IF range'.start >= earliest THEN range'.start ELSE earliest
          IN  /\ findUrl'.start = [iso8601 |-> later]
              /\ findUrl'.start.iso8601 >= earliest
      ]_vars

\* a range starting 35 minutes in, searched 10 minutes in: the search
\* starts at minute 40
C7_Witness ==
    /\ effect # 0
    /\ now = 1
    /\ range.start = 35 * Minute
    /\ findUrl.start.iso8601 = 40 * Minute

\* C8: every issued $find request ends at the range's end when that is
\* after the effective start, else seven days after the effective start; so
\* it always starts before it ends.
C8_EndIsAfterStart ==
    [][Issues =>
          LET start == findUrl'.start.iso8601
              end   == findUrl'.end.iso8601
          IN  /\ range'.end > start => end = range'.end
              /\ ~(range'.end > start) => end = start + 7 * 24 * 60 * 60 * 1000
              /\ start < end
      ]_vars

\* a range ending exactly on the effective start is searched for a week
C8_Witness ==
    /\ effect # 0
    /\ range.end = 40 * Minute
    /\ findUrl.start.iso8601 = 40 * Minute
    /\ findUrl.end.iso8601 = 40 * Minute + 7 * 24 * 60 * Minute

\* C9: when the current $find search fails, the error is shown once, no
\* request is issued again and the pane's state stays as it was.
C9_FailureShownOnceStateKept ==
    [][\A i \in 1..Len(requests) :
          (Current(i) /\ Settles(i) /\ requests'[i].outcome = "rejected") =>
                /\ notifications' = notifications + 1
                /\ requests'[i].notified
                /\ ~Issues
                /\ PaneUnchanged
                /\ UNCHANGED <<effect, findUrl, mounted, range>>
      ]_vars

\* a search failed over a slot list an earlier search had delivered, and
\* the list is still there
C9_Witness ==
    \E i \in 1..Len(requests) :
        /\ Current(i)
        /\ requests[i].notified
        /\ notifications = 1
        /\ Len(slots.items) = 2

RECURSIVE ResourcesInOrder(_)
\* the resources of the entries, in order, entries without one left out
ResourcesInOrder(entry) ==
    IF entry = <<>> THEN <<>>
    ELSE (IF Head(entry).hasResource THEN <<Head(entry).resource>> ELSE <<>>)
            \o ResourcesInOrder(Tail(entry))

\* a resource apart from its transient identifier
WithoutTransientIdentifier(resource) ==
    [resource EXCEPT !.identifier =
        SelectSeq(@, LAMBDA identifier : identifier.system # MedplumSchedulingTransientIdentifierURI)]

\* C10: when the current $find search succeeds, the slot list becomes the
\* resources of the response's entries in response order; no entry field
\* gives the empty list, entries without a resource are left out.
C10_SuccessReplacesSlotList ==
    [][\A i \in 1..Len(requests) : \A bundle \in Bundles :
          (Current(i) /\ resolveFind(i, bundle)) =>
                /\ requests'[i].delivered
                /\ slots'.defined
                /\ ~bundle.hasEntry => slots'.items = <<>>
                /\ bundle.hasEntry =>
                      /\ Len(slots'.items) = Len(ResourcesInOrder(bundle.entry))
                      /\ \A k \in 1..Len(slots'.items) :
                            WithoutTransientIdentifier(slots'.items[k])
                                = WithoutTransientIdentifier(ResourcesInOrder(bundle.entry)[k])
      ]_vars

\* the response with an entry that carries no resource was delivered over
\* an earlier list: slot-2 then slot-1
C10_Witness ==
    /\ \E i \in 1..Len(requests) : Current(i) /\ requests[i].delivered
    /\ Len(requests) = 2 /\ requests[1].delivered
    /\ Len(slots.items) = 2
    /\ slots.items[1].id = "slot-2" /\ slots.items[2].id = "slot-1"

-----------------------------------------------------------------------------
(* C11..C13: the transient identifier *)

\* C11 (as stated): on a delivered successful search, a transient
\* identifier is assigned to exactly the returned slots that lack one: every
\* slot of the resulting list carries one, and a returned slot that already
\* carried one keeps its token.
C11_AssignsOnlyWhereLacking ==
    [][\A i \in 1..Len(requests) : \A bundle \in Bundles :
          (Current(i) /\ resolveFind(i, bundle) /\ bundle.hasEntry) =>
                \A k \in 1..Len(slots'.items) :
                    LET before == SchedulingTransientIdentifier_get(ResourcesInOrder(bundle.entry)[k])
                        after  == SchedulingTransientIdentifier_get(slots'.items[k])
                    IN  /\ after # NoTid
                        /\ before # NoTid => after = before
      ]_vars

\* C11 (amended): on a delivered successful search, a transient identifier
\* is assigned to every returned slot, whether or not it already carried
\* one: every slot of the resulting list carries a token drawn in this
\* delivery, and a returned slot that already carried one has its token
\* replaced.
C11_AssignsToEveryReturnedSlot ==
    [][\A i \in 1..Len(requests) : \A bundle \in Bundles :
          (Current(i) /\ resolveFind(i, bundle) /\ bundle.hasEntry) =>
                \A k \in 1..Len(slots'.items) :
                    LET before == SchedulingTransientIdentifier_get(ResourcesInOrder(bundle.entry)[k])
                        after  == SchedulingTransientIdentifier_get(slots'.items[k])
                    IN  /\ after # NoTid
                        /\ after \in nextUuid..(nextUuid' - 1)
                        /\ after # before
      ]_vars

\* the response whose first slot already carried a transient identifier
\* was delivered, and that slot now carries a token of this session
C11_Witness ==
    /\ \E i \in 1..Len(requests) : Current(i) /\ requests[i].delivered
    /\ Len(slots.items) = 2
    /\ slots.items[1].id = "slot-2"
    /\ SchedulingTransientIdentifier_get(slots.items[1]) > NoTid
    /\ SchedulingTransientIdentifier_get(slots.items[1]) # ServerTid

\* the k-th instance of the pool is handed to set in this step
AssignedInStep(k) == assign(k) \/ (assignAll /\ pool[k].hasResource)

\* the resource holds an identifier of the transient system
CarriesTransientIdentifier(resource) ==
    \E n \in 1..Len(resource.identifier) :
        resource.identifier[n].system = MedplumSchedulingTransientIdentifierURI

\* C12: after assign(r), read(r) returns the token of that assignment, and
\* keeps returning it until r is assigned again; tokens assigned to distinct
\* resource instances differ, so no two resources of a list that was
\* assigned as a whole share a token; read on a resource that was never
\* assigned (one that holds no transient identifier) reports absence.
C12_ReadReturnsTheAssignedToken ==
    [][/\ \A k \in 1..Len(pool) : pool[k].hasResource =>
            /\ assign(k) => SchedulingTransientIdentifier_get(pool'[k].resource) = nextUuid
            /\ AssignedInStep(k) =>
                    /\ SchedulingTransientIdentifier_get(pool'[k].resource) \in nextUuid..(nextUuid' - 1)
                    /\ SchedulingTransientIdentifier_get(pool'[k].resource)
                           # SchedulingTransientIdentifier_get(pool[k].resource)
            /\ ~AssignedInStep(k) =>
                    SchedulingTransientIdentifier_get(pool'[k].resource)
                        = SchedulingTransientIdentifier_get(pool[k].resource)
            /\ read(k) => lastGet'.value = SchedulingTransientIdentifier_get(pool[k].resource)
            /\ (read(k) /\ k \notin assigned /\ ~CarriesTransientIdentifier(pool[k].resource)) =>
                    lastGet'.value = NoTid
       /\ \A j, k \in assigned' :
            j # k => SchedulingTransientIdentifier_get(pool'[j].resource)
                        # SchedulingTransientIdentifier_get(pool'[k].resource)
      ]_vars

\* both instances were assigned, the first one again after the second, and
\* the first one was read: it returned its latest token
C12_Witness ==
    /\ assigned = {1, 2}
    /\ SchedulingTransientIdentifier_get(pool[2].resource) = 2
    /\ SchedulingTransientIdentifier_get(pool[1].resource) = 3
    /\ lastGet = [k |-> 1, value |-> 3]
    /\ Len(pool[1].resource.identifier) = 2

\* C13: assigning twice to the same resource instance overwrites the
\* earlier token: the resource holds exactly one transient identifier, the
\* last one assigned; and an assignment changes nothing of the resource
\* but that identifier: not its id, type or status, nor its other
\* identifiers.
C13_AssignOverwritesAndKeepsTheRest ==
    [][\A k \in 1..Len(pool) : (pool[k].hasResource /\ AssignedInStep(k)) =>
            LET before == pool[k].resource
                after  == pool'[k].resource
            IN  /\ Cardinality(IdentifiersOf(after.identifier, MedplumSchedulingTransientIdentifierURI)) = 1
                /\ \E n \in 1..Len(after.identifier) :
                        /\ after.identifier[n].system = MedplumSchedulingTransientIdentifierURI
                        /\ after.identifier[n].value \in nextUuid..(nextUuid' - 1)
                        /\ after.identifier[n].use = "temp"
                /\ after.id = before.id
                /\ after.resourceType = before.resourceType
                /\ after.status = before.status
                /\ WithoutTransientIdentifier(after) = WithoutTransientIdentifier(before)
      ]_vars

\* one instance, which has an identifier of another system, was assigned
\* twice: it holds the second token and still its other identifier
C13_Witness ==
    \E k \in 1..Len(pool) :
        /\ assigned = {k}
        /\ nextUuid = 3
        /\ pool[k].resource.identifier = <<BusinessIdentifier, TransientIdentifier(2)>>

-----------------------------------------------------------------------------
(* C14..C19: booking *)

\* the resources of a type, in the order of the list
RECURSIVE OfTypeInOrder(_, _)
OfTypeInOrder(resources, type) ==
    IF resources = <<>> THEN <<>>
    ELSE (IF Head(resources).resourceType = type THEN <<Head(resources)>> ELSE <<>>)
            \o OfTypeInOrder(Tail(resources), type)

\* the slots that are not busy, in the order of the list
RECURSIVE NotBusyInOrder(_)
NotBusyInOrder(resources) ==
    IF resources = <<>> THEN <<>>
    ELSE (IF Head(resources).status = "busy" THEN <<>> ELSE <<Head(resources)>>)
            \o NotBusyInOrder(Tail(resources))

\* the resources a $book response carries, in response order
ResponseResources(bundle) == IF bundle.hasEntry THEN ResourcesInOrder(bundle.entry) ELSE <<>>

\* a list state of the page as a list: `state ?? EMPTY`
ItemsOf(state) == IF state.defined THEN state.items ELSE <<>>

\* C14: submitting the booking form while no patient is selected does
\* nothing: no $book request is issued, onSuccess is not called, no error is
\* reported, and the loading flag, the pane and the lists of the schedule
\* view stay as they are.
C14_SubmitWithoutPatientDoesNothing ==
    [][/\ (handleSubmit /\ patient = NoPatient) =>
            UNCHANGED <<books, loading, notifications, appointments, pageSlots,
                        serviceType, slots, chosenSlot, patient, requests>>
       /\ \A i \in 1..Len(books') :
            books'[i].parameters.patientReference # createReference(NoPatient)
      ]_vars

\* the form was submitted without a patient, and nothing was posted
C14_Witness ==
    /\ FormMounted
    /\ patient = NoPatient
    /\ submits.withoutPatient > 0
    /\ books = <<>>

\* C15: the result handed to onSuccess partitions the resources of the
\* response by type: appointments is the Appointment resources and slots
\* the Slot resources, each in response order; every resource is in exactly
\* one of the two lists, and entries without a resource are left out.
C15_ResultPartitionsByType ==
    [][\A i \in 1..Len(books) : \A bundle \in BookBundles :
          resolveBook(i, bundle) =>
              LET results == books'[i].results
              IN  /\ results.called
                  /\ results.appointments = OfTypeInOrder(ResponseResources(bundle), "Appointment")
                  /\ results.slots = OfTypeInOrder(ResponseResources(bundle), "Slot")
                  /\ Len(results.appointments) + Len(results.slots) = Len(ResponseResources(bundle))
                  /\ \A k \in 1..Len(results.appointments) :
                        results.appointments[k].resourceType # "undefined"
                  /\ \A k \in 1..Len(results.slots) :
                        results.slots[k].resourceType # "undefined"
      ]_vars

\* both kinds of response were handed on: appointment, busy slot and
\* buffer slot; and the one with an entry without a resource
C15_Witness ==
    \E i, j \in 1..Len(books) :
        /\ books[i].results.called
        /\ Len(books[i].results.appointments) = 1
        /\ Len(books[i].results.slots) = 2
        /\ books[i].results.slots[1].status = "busy"
        /\ books[i].results.slots[2].status = "busy-unavailable"
        /\ books[j].results.called
        /\ Len(books[j].results.slots) = 1
        /\ books[j].results.appointments[1].id = "appointment-2"

\* C16: each submission with a selected patient issues exactly one $book
\* request, carrying the chosen slot and a reference to that patient; no
\* other step issues or re-issues one, whether a request failed or
\* succeeded, so there are as many $book requests as such submissions.
C16_OneRequestPerSubmission ==
    [][/\ (handleSubmit /\ patient # NoPatient) =>
            /\ Len(books') = Len(books) + 1
            /\ books'[Len(books')].parameters.slot = chosenSlot
            /\ books'[Len(books')].parameters.patientReference
                    = [reference |-> <<"Patient", "/", patient.id>>]
            /\ books'[Len(books')].outcome = "pending"
       /\ ~(handleSubmit /\ patient # NoPatient) => Len(books') = Len(books)
       /\ \A i \in 1..Len(books) : books'[i].parameters = books[i].parameters
       /\ Len(books') = submits'.withPatient
      ]_vars

\* a request failed, the form was submitted again and that request
\* succeeded: two submissions, two requests
C16_Witness ==
    /\ Len(books) = 2
    /\ submits.withPatient = 2
    /\ books[1].outcome = "rejected"
    /\ books[2].outcome = "fulfilled"
    /\ books[2].parameters.slot.id = "slot-2"

\* C17: when a $book request fails, the error is shown and nothing is
\* merged: onSuccess is not called, the appointment list and the slot list
\* of the schedule view are unchanged, and the pane keeps its selector, its
\* slot list and its chosen slot.
C17_FailureIsShownNothingMerged ==
    [][\A i \in 1..Len(books) :
          rejectBook(i, "ServerError") =>
              /\ notifications' = notifications + 1
              /\ books'[i].outcome = "rejected"
              /\ ~books'[i].results.called
              /\ UNCHANGED <<appointments, pageSlots, serviceType, slots, chosenSlot>>
      ]_vars

\* a request failed while its form was open: the error was shown, the
\* chosen slot and the slot list are still there, nothing was merged
C17_Witness ==
    /\ FormMounted
    /\ Len(books) = 1
    /\ books[1].outcome = "rejected"
    /\ books[1].form
    /\ notifications = 1
    /\ Len(slots.items) = 2
    /\ serviceType # Null
    /\ ~appointments.defined /\ ~pageSlots.defined

\* C18: the loading flag of the booking form is true exactly while a $book
\* request that this form issued is in flight: true from the submission on,
\* false again once the request has settled, by success or by failure.
C18_LoadingWhileInFlight ==
    loading <=> (\E i \in 1..Len(books) : books[i].form /\ books[i].outcome = "pending")

\* a request failed and its form, still open, is not loading; an earlier
\* one had succeeded
C18_Witness ==
    /\ FormMounted
    /\ ~loading
    /\ Len(books) = 2
    /\ books[1].outcome = "fulfilled"
    /\ books[2].outcome = "rejected" /\ books[2].form

\* C19: on booking success the schedule view puts every returned
\* Appointment before the entries of its appointment list and every
\* returned Slot whose status is not busy before the entries of its slot
\* list, in response order; busy slots are not added, and the entries the
\* lists had are kept as they were, in order.
C19_ResultIsPrependedWithoutBusySlots ==
    [][\A i \in 1..Len(books) : \A bundle \in BookBundles :
          (resolveBook(i, bundle) /\ books[i].page) =>
              LET newAppointments == OfTypeInOrder(ResponseResources(bundle), "Appointment")
                  newSlots        == NotBusyInOrder(OfTypeInOrder(ResponseResources(bundle), "Slot"))
              IN  /\ appointments'.defined
                  /\ pageSlots'.defined
                  /\ appointments'.items = newAppointments \o ItemsOf(appointments)
                  /\ pageSlots'.items = newSlots \o ItemsOf(pageSlots)
                  /\ \A k \in 1..(Len(pageSlots'.items) - Len(ItemsOf(pageSlots))) :
                        pageSlots'.items[k].status # "busy"
      ]_vars

\* two bookings were merged, the later one in front: its appointment
\* before the earlier one, its buffer slot before the earlier buffer slot,
\* and no busy slot
C19_Witness ==
    /\ appointments = SlotList(<<Appointment("appointment-2"), Appointment("appointment-1")>>)
    /\ pageSlots = SlotList(<<BufferSlot("slot-3"), BufferSlot("slot-2")>>)

-----------------------------------------------------------------------------
(* C20: the interval merge *)

\* the unit steps of the time line that a list of intervals covers
Covered(intervals) ==
    { t \in 0..(MaxInstant - 1) :
        \E k \in 1..Len(intervals) : intervals[k].start <= t /\ t < intervals[k].end }

\* C20: for every list of intervals (empty, single, nested and touching
\* ones among them) the output of the merge is sorted ascending by start,
\* each output interval ends strictly before the next one starts (intervals
\* that touch are merged), and the output covers the same time as the input.
C20_MergeIsSortedSeparatedAndCovers ==
    merged.done =>
        /\ \A k \in 1..(Len(merged.items) - 1) :
                /\ merged.items[k].start < merged.items[k + 1].start
                /\ merged.items[k].end < merged.items[k + 1].start
        /\ \A k \in 1..Len(merged.items) : merged.items[k].start < merged.items[k].end
        /\ Covered(merged.items) = Covered(rawSlots)
        /\ rawSlots = <<>> => merged.items = <<>>
        /\ Len(rawSlots) = 1 => merged.items = rawSlots

\* an input given out of order, with an interval nested in another and one
\* touching it, was merged into one interval
C20_Witness ==
    /\ merged.done
    /\ rawSlots = <<Interval(2, 3), Interval(0, 2), Interval(0, 1)>>
    /\ merged.items = <<Interval(0, 3)>>

-----------------------------------------------------------------------------
(* C23: dismissing the selected service type *)

\* the selected service type is dismissed in this step
Dismisses == mounted /\ mounted' /\ serviceType # Null /\ serviceType' = Null

\* C23: dismissing the selected service type empties the pane's slot list
\* and cancels every search still in flight; while the selector stays in
\* no-selection the list stays as it is and no error is raised, and the
\* response of a search that was in flight at the dismissal, whenever it
\* arrives and however it settles, neither changes the list nor raises an
\* error: only a search issued by a later selection can deliver.
C23_DismissedSearchNeverRepopulates ==
    [][/\ Dismisses =>
            /\ slots' = SlotList(EMPTY)
            /\ ~Issues
            /\ \A i \in 1..Len(requests) : ~requests[i].completed => requests'[i].aborted
       /\ (mounted /\ mounted' /\ serviceType = Null /\ serviceType' = Null) =>
            (slots' = slots /\ notifications' = notifications /\ ~Issues)
       /\ \A i \in 1..Len(requests) :
            (requests[i].aborted /\ Settles(i)) =>
                /\ slots' = slots
                /\ notifications' = notifications
                /\ ~requests'[i].delivered
                /\ ~requests'[i].notified
      ]_vars

\* a search in flight at the dismissal resolved with a bundle afterwards,
\* and another one rejected with a server error: the list is empty, the
\* selector is in no-selection, nothing was shown
C23_Witness ==
    /\ mounted
    /\ serviceType = Null
    /\ slots = SlotList(EMPTY)
    /\ notifications = 0
    /\ \E i, j \in 1..Len(requests) :
            /\ requests[i].aborted /\ requests[i].outcome = "fulfilled"
            /\ requests[j].aborted /\ requests[j].outcome = "rejected"
            /\ requests[j].error = "ServerError"

-----------------------------------------------------------------------------
(* C24: the pane after a successful booking *)

\* C24: when a $book request resolves, the find pane's selector returns to
\* no-selection, its slot list becomes empty and its chosen slot is cleared;
\* the onSuccess of the schedule view is called once, with the result as
\* bookSlot partitioned it; and the reset issues no $find search.
C24_BookSuccessResetsThePane ==
    [][\A i \in 1..Len(books) : \A bundle \in BookBundles :
          (resolveBook(i, bundle) /\ books[i].page) =>
              LET results == [ called       |-> TRUE,
                               appointments |-> OfTypeInOrder(ResponseResources(bundle), "Appointment"),
                               slots        |-> OfTypeInOrder(ResponseResources(bundle), "Slot") ]
              IN  /\ serviceType' = Null
                  /\ slots' = SlotList(<<>>)
                  /\ chosenSlot' = NoSlot
                  /\ ~Issues
                  /\ effect' = 0
                  /\ ~books[i].results.called
                  /\ books'[i].results = results
                  /\ \A j \in 1..Len(books) : j # i => books'[j].results = books[j].results
                  /\ appointments' = MergeAppointments(results, appointments)
                  /\ pageSlots' = MergeSlots(results, pageSlots)
      ]_vars

\* a booking succeeded in a pane that had a service type selected, slots
\* listed and a slot chosen: the pane is reset, the result is in the lists
\* of the schedule view, and the search that listed the slots is still the
\* only one issued
C24_Witness ==
    /\ mounted
    /\ serviceType = Null
    /\ slots = SlotList(<<>>)
    /\ chosenSlot = NoSlot
    /\ Len(requests) = 1 /\ requests[1].delivered
    /\ Len(books) = 1
    /\ books[1].outcome = "fulfilled"
    /\ books[1].results.called
    /\ books[1].results.appointments = <<Appointment("appointment-1")>>
    /\ appointments = SlotList(<<Appointment("appointment-1")>>)
    /\ pageSlots = SlotList(<<BufferSlot("slot-2")>>)

-----------------------------------------------------------------------------
(* C29: the selector of a schedule with one service type *)

\* C29: while the find pane of a schedule that declares exactly one
\* service type is rendered, its selector is never in no-selection.
C29_SingleServiceTypeStaysSelected ==
    (mounted /\ Len(serviceTypesFromSchedulingParameters(schedule)) = 1) => serviceType # Null

-----------------------------------------------------------------------------
(* C28: the chosen slot and the slot list *)

\* is the slot one of the list
InSlotList(slot, list) == list.defined /\ \E k \in 1..Len(list.items) : list.items[k] = slot

\* C28 (as stated): whenever a slot is chosen in the find pane, it is a
\* member of the pane's current slot list.
C28_ChosenSlotIsInTheSlotList ==
    chosenSlot # NoSlot => InSlotList(chosenSlot, slots)

\* C28 (amended): a slot becomes the chosen one only by being picked from
\* the pane's slot list as it is at that moment, which the pick leaves as
\* it is; while a slot is chosen, neither the settlement of a search nor a
\* change of the range or of the clock changes the chosen slot, whatever
\* they do to the list.
C28_ChosenSlotWasInTheSlotList ==
    [][/\ (chosenSlot' # chosenSlot /\ chosenSlot' # NoSlot) =>
            (chosenSlot = NoSlot /\ InSlotList(chosenSlot', slots) /\ slots' = slots)
       /\ (chosenSlot # NoSlot /\ mounted') =>
            /\ (\E i \in 1..Len(requests) : Settles(i)) => chosenSlot' = chosenSlot
            /\ (range' # range \/ now' # now) => chosenSlot' = chosenSlot
      ]_vars

\* a slot was chosen, the search ran again and delivered: the chosen slot
\* is kept and the list that replaced the one it was picked from does not
\* contain it
C28_Witness ==
    /\ mounted
    /\ chosenSlot # NoSlot
    /\ slots.defined
    /\ Len(slots.items) = 2
    /\ ~InSlotList(chosenSlot, slots)
    /\ \E i \in 1..Len(requests) : i > 1 /\ requests[i].delivered

-----------------------------------------------------------------------------
(* C25: a $book request is not cancelled *)

\* the number of appointments the successful $book responses carried
RECURSIVE AppointmentsBooked(_)
AppointmentsBooked(bks) ==
    IF bks = <<>> THEN 0
    ELSE (IF Head(bks).outcome = "fulfilled" THEN Len(Head(bks).results.appointments) ELSE 0)
            + AppointmentsBooked(Tail(bks))

SchedulesCreated == { i \in 1..Len(lookups) : lookups[i].create = "created" }

\* C21: the find-or-create effect creates a Schedule only when its search
\* found none, and in one page session at most one Schedule is created,
\* even if the effect runs again before its first search or creation has
\* settled
C21_AtMostOneScheduleIsCreated ==
    /\ \A i \in 1..Len(lookups) : lookups[i].create # "idle" => lookups[i].search = "none"
    /\ Cardinality(SchedulesCreated) <= 1

\* fetch i of the list of fetches settles in this step
FetchSettles(fetches, after, i) ==
    /\ i \in 1..Len(fetches)
    /\ fetches[i].outcome = "pending"
    /\ after[i].outcome # "pending"

\* the fetch is the one issued last, for the range the page shows
IssuedForRange(fetches, i) == i = Len(fetches) /\ fetches[i].range = range

\* the fetch is the one issued last, for the range the page shows and the
\* schedule the page has
IssuedForRangeAndSchedule(fetches, i) ==
    IssuedForRange(fetches, i) /\ fetches[i].schedule = schedule

\* C22 as stated: whenever a Slot fetch or an Appointment fetch settles that
\* was not issued for the current range and the current schedule, its
\* result is not written to its list and its failure is not shown
C22_OnlyTheFetchOfRangeAndScheduleWrites ==
    [][ /\ \A i \in 1..Len(slotFetches) :
              (FetchSettles(slotFetches, slotFetches', i)
                  /\ ~IssuedForRangeAndSchedule(slotFetches, i))
              => UNCHANGED <<pageSlots, notifications>>
        /\ \A i \in 1..Len(appointmentFetches) :
              (FetchSettles(appointmentFetches, appointmentFetches', i)
                  /\ ~IssuedForRangeAndSchedule(appointmentFetches, i))
              => UNCHANGED <<appointments, notifications>> ]_vars

\* C22, amended: a Slot fetch that settles writes its result or shows its
\* failure only if it was issued for the current range and the current
\* schedule; an Appointment fetch only if it was issued for the current
\* range.  A settling fetch never touches the other list.
C22_OnlyTheCurrentFetchWrites ==
    [][ /\ \A i \in 1..Len(slotFetches) :
              FetchSettles(slotFetches, slotFetches', i)
              => /\ UNCHANGED appointments
                 /\ ~IssuedForRangeAndSchedule(slotFetches, i)
                      => UNCHANGED <<pageSlots, notifications>>
        /\ \A i \in 1..Len(appointmentFetches) :
              FetchSettles(appointmentFetches, appointmentFetches', i)
              => /\ UNCHANGED pageSlots
                 /\ ~IssuedForRange(appointmentFetches, i)
                      => UNCHANGED <<appointments, notifications>> ]_vars

\* a Slot fetch superseded by a change of the schedule has resolved and was
\* dropped, an Appointment fetch superseded by a change of the range has
\* rejected and was not shown, and the current fetches have delivered
C22_Witness ==
    /\ \E i \in 1..Len(slotFetches) :
          /\ slotFetches[i].outcome = "fulfilled"
          /\ ~slotFetches[i].applied
          /\ slotFetches[i].range = range
          /\ slotFetches[i].schedule # schedule
    /\ \E i \in 1..Len(appointmentFetches) :
          /\ appointmentFetches[i].outcome = "rejected"
          /\ ~appointmentFetches[i].applied
          /\ appointmentFetches[i].range # range
    /\ slotFetches[Len(slotFetches)].applied
    /\ appointmentFetches[Len(appointmentFetches)].applied
    /\ pageSlots.defined
    /\ appointments.defined
    /\ notifications = 0

-----------------------------------------------------------------------------
(* C26, C27: the lists of the schedule view after booking results were     *)
(* merged into them                                                        *)

\* the list holds the resource
Holds(state, resource) ==
    \E k \in 1..Len(ItemsOf(state)) :
        /\ state.items[k].resourceType = resource.resourceType
        /\ state.items[k].id = resource.id

\* C26: once a booking result was merged into the schedule view, its
\* appointments stay in the appointment list and its slots that are not busy
\* stay in the slot list in every step that leaves the range and the
\* schedule as they are, the arrival of a range fetch issued before the
\* booking among them
C26_MergedResultsStay ==
    [][ (range' = range /\ schedule' = schedule) =>
            \A i \in 1..Len(books) :
                books[i].outcome = "fulfilled" =>
                    /\ \A k \in 1..Len(books[i].results.appointments) :
                            Holds(appointments, books[i].results.appointments[k])
                            => Holds(appointments', books[i].results.appointments[k])
                    /\ \A k \in 1..Len(books[i].results.slots) :
                            (books[i].results.slots[k].status # "busy"
                                /\ Holds(pageSlots, books[i].results.slots[k]))
                            => Holds(pageSlots', books[i].results.slots[k])
      ]_vars

\* the two slots are apart on the time line: neither overlaps nor touches
\* the other
Apart(a, b) == a.end < b.start \/ b.end < a.start

\* C27: in every reachable state the slot list of the schedule view is a
\* merged interval set: any two of its slots neither overlap nor touch,
\* after a range fetch and after any number of merged booking results
C27_SlotListIsMergedIntervalSet ==
    \A j, k \in 1..Len(ItemsOf(pageSlots)) :
        j # k => Apart(pageSlots.items[j], pageSlots.items[k])

-----------------------------------------------------------------------------
(* C30: the claim of the billing tab *)

\* C30: syncClaim calls for the creation of a Claim only while the tab has
\* none, and at most one Claim is created however the changes of the charge
\* items, the saved encounter changes and the re-syncs interleave, also when
\* a second one comes before the first creation has returned
C30_AtMostOneClaimIsCreated ==
    /\ Cardinality(ClaimsCreated) <= 1
    /\ (\E i \in 1..Len(creations) : creations[i] = "created") => claim # NoClaim

====
